---- MODULE Spec2Model ----
(***************************************************************************)
(* Model of the registration engine of CascadedPointCloudFit:              *)
(*   cascaded_fit/api/app.py           PointCloudAPI (fallback cascade)    *)
(*   cascaded_fit/core/registration.py pca_registration, icp_refinement    *)
(*   cascaded_fit/core/validators.py   PointCloudValidator, Transformation-*)
(*                                     Validator                           *)
(*   cascaded_fit/core/metrics.py      MetricsCalculator                   *)
(*   cascaded_fit/fitters/*.py         FitResult, IcpFitter, FgrFitter,    *)
(*                                     CascadedFitter                      *)
(*                                                                         *)
(* Abstractions.                                                           *)
(*  - A point set is a run-length encoded sequence of points; a point is   *)
(*    "z" (within allclose tolerance of the origin), "p" (finite, away     *)
(*    from the origin), "x" (NaN) or "i" (infinite).  Lengths are the real *)
(*    ones, so the validator's limits keep their values.                   *)
(*  - A rigid transform is a rotation by a multiple of 2*pi/GroupOrder     *)
(*    about a fixed axis: composition is addition and np.linalg.inv is     *)
(*    negation modulo GroupOrder.  BadTransform is a matrix that fails     *)
(*    TransformationValidator (non-finite or improper).                    *)
(*  - Residuals (RMSE, max error, mean ICP residual) are small naturals;   *)
(*    the mean ICP residual is counted in units of the tolerance.          *)
(*  - What the numerical kernels return (SVD, the KD-tree distances, the   *)
(*    Open3D registration calls) is chosen nondeterministically; a call    *)
(*    into Open3D either returns or raises.  The API hands numpy arrays to *)
(*    the Open3D-based fitters; with a plain ndarray those calls raise     *)
(*    (tests/integration/test_api.py:136), which is the "raises" outcome.  *)
(*  - A point set may carry the positions of its points: a set of places   *)
(*    on a ring of GroupOrder places, which a transform t turns by t       *)
(*    places.  For such a set the nearest-neighbour distances and the      *)
(*    alignment step are computed; for a set without positions they are    *)
(*    chosen nondeterministically as above.                                *)
(*  - A matrix handed to TransformationValidator is described by what the  *)
(*    validator measures on it, in units of 1e-6: the deviation of R.R^T   *)
(*    from the identity (on and off the diagonal) and of det(R) from 1.    *)
(***************************************************************************)
EXTENDS Integers, Sequences, FiniteSets, TLC

\* ------------------------------------------------------------------ bounds
MaxThreshold == 1
MaxRmse == 2
GroupOrder == 3
MaxUpdates == 2
MaxIterations == 2
MaxMeanError == 1
MaxDeviation == 6
MaxBudget == 4

\* ------------------------------------------------------- program constants
MinPoints == 100
MaxPoints == 10000000
PairMinPoints == 10
Tolerance == 1
MaxErrorFactor == 3
One == 1000000
OrthogonalAtol == 1
DeterminantAtol == 1
RtolDivisor == 100000

Thresholds == 0..MaxThreshold
Rmses == 0..MaxRmse
MeanErrors == 0..MaxMeanError
Transforms == 0..(GroupOrder - 1)
BadTransform == 0 - 1
Identity == 0
Infinity == 0 - 1
None == 0 - 1

Min(a, b) == IF a <= b THEN a ELSE b
Abs(a) == IF a < 0 THEN 0 - a ELSE a

\* ------------------------------------------------------------- transforms
Compose(a, b) == (a + b) % GroupOrder
Inv(t) == (GroupOrder - t) % GroupOrder

\* -------------------------------------------------------------- exceptions
NoExc == "none"

IsRegistrationError(e) == e \in {"RegistrationError", "ConvergenceError"}
IsValidationError(e) == e \in {"PointCloudValidationError", "InsufficientPointsError"}
IsException(e) == e # NoExc

\* -------------------------------------------------------------- point sets
Run(k, c) == [k |-> k, c |-> c]

\* an N x 3 float array; "at" is the set of ring places its points occupy,
\* empty when the positions are not modelled
NdArray(runs) == [type |-> "ndarray", dtype |-> "float64", ndim |-> 2, cols |-> 3,
                  runs |-> runs, at |-> {}]

RECURSIVE RunsLen(_)
RunsLen(runs) == IF runs = << >> THEN 0 ELSE Head(runs).c + RunsLen(Tail(runs))

PyLen(points) == RunsLen(points.runs)

RECURSIVE TakeRuns(_, _)
TakeRuns(runs, n) ==
    IF n <= 0 \/ runs = << >> THEN << >>
    ELSE IF Head(runs).c <= n
         THEN <<Head(runs)>> \o TakeRuns(Tail(runs), n - Head(runs).c)
         ELSE <<Run(Head(runs).k, n)>>

Slice(points, n) == [points EXCEPT !.runs = TakeRuns(points.runs, n)]

IsFiniteAll(points) ==
    \A i \in 1..Len(points.runs) : points.runs[i].k \notin {"x", "i"}
AllCloseZero(points) == \A i \in 1..Len(points.runs) : points.runs[i].k = "z"

Good100 == NdArray(<<Run("p", 100)>>)
Good150 == NdArray(<<Run("p", 150)>>)
ZeroHead150 == NdArray(<<Run("z", 100), Run("p", 50)>>)
Short99 == NdArray(<<Run("p", 99)>>)
NonFinite100 == NdArray(<<Run("p", 99), Run("x", 1)>>)
TwoColumns100 == [NdArray(<<Run("p", 100)>>) EXCEPT !.cols = 2]

\* the (source, target) pairs a request is made with, and the pairs of clouds
\* CascadedFitter.run loads from its two files
RequestPairs == {<<Good100, Good100>>, <<Good100, Good150>>, <<ZeroHead150, Good100>>,
                 <<Short99, Good100>>, <<Good100, NonFinite100>>,
                 <<TwoColumns100, Good100>>}
LoadedPairs == {<<Good100, Good100>>, <<Good100, Good150>>, <<Good150, Good100>>}

\* the arrays PointCloudValidator.validate is tried on
Lengths == {MinPoints - 1, MinPoints, MinPoints + 1, MaxPoints, MaxPoints + 1}
RunInputs == {<<Run(k, n)>> : k \in {"p", "z", "x", "i"}, n \in Lengths} \cup
             {<<Run("p", n - 1), Run("x", 1)>> : n \in Lengths} \cup
             {<<Run("p", n - 1), Run("i", 1)>> : n \in Lengths} \cup
             {<<Run("z", n - 1), Run("p", 1)>> : n \in Lengths}
ArrayInputs ==
    {[type |-> type, dtype |-> dtype, ndim |-> ndim, cols |-> cols, runs |-> runs,
      at |-> {}] :
        type \in {"ndarray", "list"},
        dtype \in {"float64", "str"},
        ndim \in {1, 2},
        cols \in {2, 3},
        runs \in RunInputs}

\* what a raise statement of the validators gives: the exception class, the
\* check that raised it, and the counts an InsufficientPointsError carries
Raise(exc, check) == [exc |-> exc, check |-> check, actual |-> 0, required |-> 0]
InsufficientPointsError(actual, required) ==
    [exc |-> "InsufficientPointsError", check |-> "min_points",
     actual |-> actual, required |-> required]
Passed == Raise(NoExc, "none")

\* np.isfinite(points).all(): the ufunc has no loop for a non-numeric dtype
\* and raises TypeError
IsFinite(points) ==
    IF points.dtype # "float64" THEN Raise("TypeError", "finite")
    ELSE IF ~IsFiniteAll(points) THEN Raise("PointCloudValidationError", "finite")
    ELSE Passed

\* np.allclose(points, 0) (67): the comparison has no loop for a non-numeric
\* dtype and raises TypeError; NaN and infinity are not close to 0
AllClose(points) ==
    IF points.dtype # "float64" THEN Raise("TypeError", "all_zero")
    ELSE IF AllCloseZero(points) THEN Raise("PointCloudValidationError", "all_zero")
    ELSE Passed

\* the flags PointCloudValidator.__init__ reads from the configuration
Validator(check_nan, check_inf) == [check_nan |-> check_nan, check_inf |-> check_inf]
DefaultValidator == Validator(TRUE, TRUE)
Validators == {Validator(n, i) : n, i \in BOOLEAN}

\* PointCloudValidator.validate, check by check, on a validator self
ValidateChecksWith(self, points) ==
    IF points.type # "ndarray" THEN Raise("PointCloudValidationError", "type")
    ELSE IF points.ndim # 2 THEN Raise("PointCloudValidationError", "ndim")
    ELSE IF points.cols # 3 THEN Raise("PointCloudValidationError", "columns")
    ELSE IF PyLen(points) < MinPoints
         THEN InsufficientPointsError(PyLen(points), MinPoints)
    ELSE IF PyLen(points) > MaxPoints
         THEN Raise("PointCloudValidationError", "max_points")
    ELSE IF self.check_nan /\ self.check_inf /\ IsFinite(points) # Passed
         THEN IsFinite(points)
    ELSE AllClose(points)

\* PointCloudValidator.validate with check_nan and check_inf at their
\* defaults, check by check
ValidateChecks(points) == ValidateChecksWith(DefaultValidator, points)

\* the exception PointCloudValidator.validate ends with
Validate(points) == ValidateChecks(points).exc

ValidatePair(source, target) ==
    IF Validate(source) # NoExc THEN Validate(source)
    ELSE IF Validate(target) # NoExc THEN Validate(target)
    ELSE IF PyLen(source) < PairMinPoints \/ PyLen(target) < PairMinPoints
         THEN "InsufficientPointsError"
    ELSE NoExc

\* --------------------------------------------------- matrices, in 1e-6 units
\* np.isclose / np.allclose on one entry: |a - b| <= atol + rtol * |b|, with
\* numpy's default rtol of 1e-5; dev is |a - b| and expected is |b|
IsClose(dev, expected, atol) == dev <= atol + expected \div RtolDivisor

\* a 4x4 array with bottom row [0, 0, 0, 1]; gram_diag and gram_off are the
\* largest deviations of R.R^T from the identity on and off the diagonal, det
\* the deviation of det(R) from 1
Matrix4(gram_diag, gram_off, det) ==
    [type |-> "ndarray", shape |-> <<4, 4>>, finite |-> TRUE,
     bottom |-> <<0, 0, 0, One>>,
     gram_diag |-> gram_diag, gram_off |-> gram_off, det |-> det]

\* a proper rotation with a translation
Rigid == Matrix4(0, 0, 0)
\* R = (1 + a*1e-6) * I: R.R^T = (1 + 2a*1e-6) * I and det(R) = 1 + 3a*1e-6, up
\* to terms of 1e-12
Scaled(a) == Matrix4(2 * a, 0, 3 * a)
\* R = I + s*1e-6 * E12: R.R^T has s*1e-6 off the diagonal, det(R) = 1
Sheared(s) == Matrix4(0, s, 0)
\* R = diag(-1, 1, 1)
Reflection == Matrix4(0, 0, 2 * One)

\* the matrices TransformationValidator.validate is tried on
MatrixShapes == {Rigid, Reflection} \cup
                {Scaled(a) : a \in 1..MaxDeviation} \cup
                {Sheared(a) : a \in 1..MaxDeviation}
MatrixInputs ==
    {[m EXCEPT !.type = type, !.shape = shape, !.finite = finite, !.bottom = bottom] :
        m \in MatrixShapes,
        type \in {"ndarray", "list"},
        shape \in {<<4, 4>>, <<3, 3>>},
        finite \in BOOLEAN,
        bottom \in {<<0, 0, 0, One>>, <<One, 0, 0, One>>, <<0, 0, 0, One + 5>>}}

\* np.allclose(transform[3, :], [0, 0, 0, 1]) with the default atol of 1e-8,
\* which is below the unit
BottomRowClose(bottom) ==
    \A i \in 1..4 :
        LET expected == IF i = 4 THEN One ELSE 0
        IN  IsClose(Abs(bottom[i] - expected), expected, 0)

\* TransformationValidator.validate, check by check
TransformationValidatorChecks(transform) ==
    IF transform.type # "ndarray" THEN Raise("PointCloudValidationError", "type")
    ELSE IF transform.shape # <<4, 4>>
         THEN Raise("PointCloudValidationError", "shape")
    ELSE IF ~transform.finite THEN Raise("PointCloudValidationError", "finite")
    ELSE IF ~BottomRowClose(transform.bottom)
         THEN Raise("PointCloudValidationError", "bottom_row")
    ELSE IF ~(/\ IsClose(transform.gram_diag, One, OrthogonalAtol)
              /\ IsClose(transform.gram_off, 0, OrthogonalAtol))
         THEN Raise("PointCloudValidationError", "orthogonal")
    ELSE IF ~IsClose(transform.det, One, DeterminantAtol)
         THEN Raise("PointCloudValidationError", "determinant")
    ELSE Passed

\* the matrix of a transform of the model: a rotation of the group is rigid,
\* BadTransform holds a NaN
Matrix(T) == IF T \in Transforms THEN Rigid ELSE [Rigid EXCEPT !.finite = FALSE]

\* the exception TransformationValidator.validate ends with
TransformationValidate(T) == TransformationValidatorChecks(Matrix(T)).exc

\* a truncation that leaves the target as it is
AlignCloudSizesSourceOnly(source, target) ==
    LET min_size == Min(PyLen(source), PyLen(target))
    IN  <<Slice(source, min_size), target>>

\* align_cloud_sizes of PointCloudAPI (app.py 59-82) and of PointCloudReader
\* (readers.py 113-129): source[:min_size], target[:min_size]
AlignCloudSizes(source, target) ==
    LET min_size == Min(PyLen(source), PyLen(target))
    IN  <<Slice(source, min_size), Slice(target, min_size)>>

\* ----------------------------------------------------------------- metrics
\* A transform value as Python sees it: a 4x4 ndarray, or the 3-tuple
\* (transform, iterations, error) that icp_refinement returns.
NdTransform(t) == [type |-> "ndarray", T |-> t, iterations |-> 0, error |-> 0]
IcpReturn(t, n, e) == [type |-> "tuple", T |-> t, iterations |-> n, error |-> e]

\* the residual statistics the KD-tree query yields for a set without
\* positions; RMSE <= max
Metrics == {[RMSE |-> r, MaxError |-> 2 * r, MeanError |-> r, MedianError |-> r] :
               r \in Rmses}

\* ---- point sets with positions
Ring == 0..(GroupOrder - 1)

\* a set of 120 points spread evenly over the places of "at"
OnRing(at) == [NdArray(<<Run("p", 120)>>) EXCEPT !.at = at]
Placed(points) == points.at # {}

\* np.dot(source, transform[:3, :3].T) + transform[:3, 3] for one point
Turn(p, T) == (p + T) % GroupOrder
RingDist(a, b) == Min((a + GroupOrder - b) % GroupOrder, (b + GroupOrder - a) % GroupOrder)

\* tree.query with k = 2, second column: the distance to the nearest target
\* place other than the query's own
NearestOther(p, places) ==
    LET ds == {RingDist(p, b) : b \in places \ {p}}
    IN  IF ds = {} THEN GroupOrder ELSE CHOOSE d \in ds : \A e \in ds : d <= e

\* tree.query(p): the distance to the nearest target place
Nearest(p, places) ==
    LET ds == {RingDist(p, b) : b \in places}
    IN  CHOOSE d \in ds : \A e \in ds : d <= e

\* distances, _ = tree.query(transformed_source), one entry per source place
Distances(source, target, T) ==
    [p \in source.at |-> Nearest(Turn(p, T), target.at)]

RECURSIVE SumOver(_, _)
SumOver(f, S) ==
    IF S = {} THEN 0
    ELSE LET x == CHOOSE x \in S : TRUE IN f[x] + SumOver(f, S \ {x})

\* the k-th smallest of the distances
Kth(d, k) ==
    LET vals == {d[p] : p \in DOMAIN d}
        atmost(v) == Cardinality({p \in DOMAIN d : d[p] <= v})
    IN  CHOOSE v \in vals : atmost(v) >= k /\ \A w \in vals : atmost(w) >= k => v <= w

\* The four statistics of compute_metrics (38-41), kept exact as integers over
\* n places: RMSE as the sum of the squared distances (n * RMSE^2), the mean
\* as the sum of the distances (n * mean), the median doubled.
Statistics(d) ==
    LET n == Cardinality(DOMAIN d)
    IN  [RMSE |-> SumOver([p \in DOMAIN d |-> d[p] * d[p]], DOMAIN d),
         MaxError |-> Kth(d, n),
         MeanError |-> SumOver(d, DOMAIN d),
         MedianError |-> IF n % 2 = 1 THEN 2 * Kth(d, (n + 1) \div 2)
                         ELSE Kth(d, n \div 2) + Kth(d, n \div 2 + 1)]

\* what the KD-tree query and the statistics give for transform T
MetricsOf(source, target, T) ==
    IF Placed(source) /\ Placed(target)
    THEN {Statistics(Distances(source, target, T))}
    ELSE Metrics

\* compute_metrics(source, target, transform): transform[:3, :3] is the first
\* thing evaluated; on a tuple it raises TypeError.  m is what the nearest-
\* neighbour distances of the transformed source give.
ComputeMetrics(transform, m) ==
    IF transform.type # "ndarray"
    THEN [exc |-> "TypeError", RMSE |-> 0, MaxError |-> 0,
          MeanError |-> 0, MedianError |-> 0]
    ELSE [exc |-> NoExc, RMSE |-> m.RMSE, MaxError |-> m.MaxError,
          MeanError |-> m.MeanError, MedianError |-> m.MedianError]

\* ---- the numerical kernel of icp_refinement
\* error = np.mean(distances), for a set with positions as the sum over its
\* places
MeanResiduals(source, target, T) ==
    IF Placed(source) /\ Placed(target)
    THEN {SumOver(Distances(source, target, T), source.at)}
    ELSE MeanErrors

\* corresponding_points = target[indices]: a nearest target place for each
\* transformed source place
Correspondences(source, target, T) ==
    {c \in [source.at -> target.at] :
        \A p \in source.at :
            RingDist(Turn(p, T), c[p]) = Nearest(Turn(p, T), target.at)}

\* the sum of squared residuals the SVD step minimises
Cost(source, T, c, R) ==
    SumOver([p \in source.at |->
                RingDist(Turn(Turn(p, T), R), c[p]) * RingDist(Turn(Turn(p, T), R), c[p])],
            source.at)

\* an alignment step that may yield any motion
IncrementsAny(source, target, T) == Transforms

\* the incremental motion of one iteration (140-154): a least-squares rigid
\* motion between the transformed source and its correspondences
Increments(source, target, T) ==
    IF Placed(source) /\ Placed(target)
    THEN {R \in Transforms :
            \E c \in Correspondences(source, target, T) :
                \A Q \in Transforms : Cost(source, T, c, R) <= Cost(source, T, c, Q)}
    ELSE Transforms

\* whether a step of the kernel may raise (overflow to a non-finite
\* covariance, a failed SVD): not for the unit-sized coordinates of a set
\* with positions
KernelRaises(source, target) ==
    IF Placed(source) /\ Placed(target) THEN {FALSE} ELSE BOOLEAN

\* --------------------------------------------------------------- FitResult
\* a success test that also accepts an RMSE equal to the threshold
FitResultInclusive(transformation, inlier_rmse, rmse_threshold, max_error) ==
    [transformation |-> transformation,
     inlier_rmse    |-> inlier_rmse,
     max_error      |-> max_error,
     rmse_threshold |-> rmse_threshold,
     is_success     |-> inlier_rmse <= rmse_threshold]

FitResult(transformation, inlier_rmse, rmse_threshold, max_error) ==
    [transformation |-> transformation,
     inlier_rmse    |-> inlier_rmse,
     max_error      |-> max_error,
     rmse_threshold |-> rmse_threshold,
     is_success     |-> inlier_rmse < rmse_threshold]

NoFit == [transformation |-> BadTransform, inlier_rmse |-> 0, max_error |-> 0,
          rmse_threshold |-> 0, is_success |-> FALSE]

\* --------------------------------------------------------------- IcpFitter
\* outcome of one o3d registration_icp call
IcpOutcomes == {[raises |-> TRUE, transformation |-> Identity, inlier_rmse |-> 0]} \cup
               {[raises |-> FALSE, transformation |-> t, inlier_rmse |-> r] :
                    t \in Transforms, r \in Rmses}
NoOutcome == [raises |-> TRUE, transformation |-> Identity, inlier_rmse |-> 0]

\* IcpFitter.fit runs ICP a second time only after a forward run that returned
\* an unsuccessful result
SecondOutcomes(source_cloud, target_cloud, thr, o1) ==
    IF PyLen(source_cloud) > PyLen(target_cloud) \/ o1.raises \/ o1.inlier_rmse < thr
    THEN {NoOutcome}
    ELSE IcpOutcomes

\* IcpFitter._execute_icp; the execution record notes the clouds and the
\* initial guess the call was given and the transform and RMSE Open3D found
ExecuteIcp(source_cloud, target_cloud, init, thr, o) ==
    LET call == [source_size |-> PyLen(source_cloud),
                 target_size |-> PyLen(target_cloud),
                 init |-> init,
                 found |-> IF o.raises THEN BadTransform ELSE o.transformation,
                 inlier_rmse |-> IF o.raises THEN None ELSE o.inlier_rmse,
                 swapped |-> FALSE]
    IN  IF o.raises
        THEN [exc |-> "RegistrationError", result |-> NoFit, executions |-> <<call>>]
        ELSE [exc |-> NoExc,
              result |-> FitResult(o.transformation, o.inlier_rmse, thr,
                                   o.inlier_rmse * MaxErrorFactor),
              executions |-> <<call>>]

\* a fitter that hands back the swapped run's transform as it is
InvertResultNot(r) == r

\* result.transformation = np.linalg.inv(result.transformation)
InvertResult(r) ==
    IF r.exc # NoExc THEN r
    ELSE [r EXCEPT !.result.transformation = Inv(@)]

\* the execution was made with target and source exchanged
MarkSwapped(r) == [r EXCEPT !.executions[1].swapped = TRUE]

FitSwapped(source_cloud, target_cloud, init, thr, o) ==
    InvertResult(MarkSwapped(ExecuteIcp(target_cloud, source_cloud, Inv(init), thr, o)))

ForwardIcp(source_cloud, target_cloud, init, thr, o) ==
    ExecuteIcp(source_cloud, target_cloud, init, thr, o)

ReverseIcp(source_cloud, target_cloud, init, thr, o) ==
    InvertResult(MarkSwapped(ExecuteIcp(target_cloud, source_cloud, Inv(init), thr, o)))

\* a fit that runs reverse ICP whatever the forward run gave
IcpFitterFitBoth(source_cloud, target_cloud, init, thr, o1, o2) ==
    IF PyLen(source_cloud) > PyLen(target_cloud)
    THEN FitSwapped(source_cloud, target_cloud, init, thr, o1)
    ELSE LET forward_result == ForwardIcp(source_cloud, target_cloud, init, thr, o1)
         IN  IF forward_result.exc # NoExc THEN forward_result
             ELSE LET reverse_result ==
                          ReverseIcp(source_cloud, target_cloud, init, thr, o2)
                  IN  [reverse_result EXCEPT
                         !.executions = forward_result.executions \o @]

\* IcpFitter.fit; o1, o2 are the outcomes of the first and second ICP run
IcpFitterFit(source_cloud, target_cloud, init, thr, o1, o2) ==
    IF PyLen(source_cloud) > PyLen(target_cloud)
    THEN FitSwapped(source_cloud, target_cloud, init, thr, o1)
    ELSE LET forward_result == ForwardIcp(source_cloud, target_cloud, init, thr, o1)
         IN  IF forward_result.exc # NoExc THEN forward_result
             ELSE IF forward_result.result.is_success THEN forward_result
             ELSE LET reverse_result ==
                          ReverseIcp(source_cloud, target_cloud, init, thr, o2)
                  IN  [reverse_result EXCEPT
                         !.executions = forward_result.executions \o @]

\* --------------------------------------------------------------- FgrFitter
\* outcome of FgrFitter._execute_fgr (feature computation and Open3D FGR)
FgrOutcomes == {[raises |-> TRUE, transformation |-> Identity]} \cup
               {[raises |-> FALSE, transformation |-> t] : t \in Transforms}

\* FgrFitter.fit; icp_fitter is TRUE when the fitter was given an IcpFitter
FgrFitterFit(source_cloud, target_cloud, thr, icp_fitter, g, o1, o2) ==
    IF g.raises
    THEN [exc |-> "RegistrationError", result |-> NoFit, executions |-> << >>]
    ELSE IF ~icp_fitter
    THEN [exc |-> NoExc,
          result |-> FitResult(g.transformation, 0, thr, 0),
          executions |-> << >>]
    ELSE IcpFitterFit(source_cloud, target_cloud, g.transformation, thr, o1, o2)

\* --------------------------------------------- the cumulative update of ICP
\* The update of icp_refinement (157-158) on matrices proper: a 4x4 transform
\* is its 3x3 block R, its translation column t and its bottom row; the
\* entries are integers, the rotations quarter turns about the x and z axes.
Idx == 1..3
MatMul(A, B) ==
    [i \in Idx |-> [j \in Idx |-> A[i][1] * B[1][j] + A[i][2] * B[2][j] + A[i][3] * B[3][j]]]
MatVec(A, v) == [i \in Idx |-> A[i][1] * v[1] + A[i][2] * v[2] + A[i][3] * v[3]]
VecAdd(u, v) == [i \in Idx |-> u[i] + v[i]]

Eye3 == <<<<1, 0, 0>>, <<0, 1, 0>>, <<0, 0, 1>>>>
RotX == <<<<1, 0, 0>>, <<0, 0, 0 - 1>>, <<0, 1, 0>>>>
RotZ == <<<<0, 0 - 1, 0>>, <<1, 0, 0>>, <<0, 0, 1>>>>

Homogeneous(R, t, bottom) == [R |-> R, t |-> t, bottom |-> bottom]
NoMatrix == Homogeneous(Eye3, <<0, 0, 0>>, <<0, 0, 0, 0>>)

\* the initial transforms the update is tried on, and the (R, t) pairs the
\* SVD step may yield
InitialMatrices ==
    {Homogeneous(R, t, bottom) : R \in {Eye3, RotZ},
                             t \in {<<0, 0, 0>>, <<1, 2, 3>>},
                             bottom \in {<<0, 0, 0, 1>>, <<0, 0, 0, 2>>}}
IncrementMatrices ==
    {[R |-> R, t |-> t] : R \in {Eye3, RotX, RotZ}, t \in {<<0, 0, 0>>, <<1, 0, 2>>}}

\* an update that multiplies the increment on the right
UpdateOnRight(current_transform, R, t) ==
    Homogeneous(MatMul(current_transform.R, R),
            VecAdd(MatVec(current_transform.R, t), current_transform.t),
            current_transform.bottom)

\* current_transform[:3, :3] = np.dot(R, current_transform[:3, :3])
\* current_transform[:3, 3] = np.dot(R, current_transform[:3, 3]) + t
UpdateTransform(current_transform, R, t) ==
    Homogeneous(MatMul(R, current_transform.R),
            VecAdd(MatVec(R, current_transform.t), t),
            current_transform.bottom)

NoCumulative == [initial_transform |-> NoMatrix, current_transform |-> NoMatrix,
                 increments |-> << >>]

\* =================================================================== state
VARIABLES
    cumulative,           \* the matrices of the cumulative update: the initial
                          \* transform, the current one and the increments applied
    entry,                \* the function the caller calls: "api" is
                          \* PointCloudAPI.process_point_clouds, "run" is
                          \* CascadedFitter.run, the others are named as in the code
    source_points,        \* the caller's source point set
    target_points,        \* the caller's target point set
    rmse_threshold,       \* PointCloudAPI.rmse_threshold (api section of the configuration)
    fitter_threshold,     \* IcpFitter/FgrFitter.rmse_threshold (registration section)
    enable_bidirectional, \* PointCloudAPI.enable_bidirectional
    fgr_icp_fitter,       \* whether FgrFitter.icp_fitter is set
    max_iterations,       \* the max_iterations argument of icp_refinement
    transform,            \* the transform argument of compute_metrics and of
                          \* TransformationValidator.validate
    request,              \* the JSON body POSTed to /process_point_clouds
    status,               \* the HTTP status the endpoint answered with
    validator,            \* check_nan and check_inf of the PointCloudValidator
                          \* that validate is called on
    pc,                   \* position in the request
    dir,                  \* "fwd" or "rev": which register_with_fallback call runs
    source_aligned,       \* truncated source
    target_aligned,       \* truncated target
    initial_transform,    \* stage 1: result of pca_registration
    icp,                  \* stage 1: convergence state of icp_refinement
    refined_transform,    \* stage 1: what icp_refinement returned
    fgr_result,           \* FitResult of the FgrFitter.fit call just made
    icp_result,           \* FitResult of the IcpFitter.fit call just made
    executions,           \* the ICP executions of the fitter call just made
    ret,                  \* what the last register_with_fallback call returned or raised
    fwd,                  \* the forward call's return value
    best,                 \* best_transform, best_rmse, best_max_error, best_method
    fit_result,           \* the FitResult built by process_point_clouds
    response,             \* the dictionary handed to the caller
    raised,               \* the exception that left the entry point
    attempts,             \* the stages the running register_with_fallback call has
                          \* attempted and how each ended (what its log lines tell)
    metrics,              \* the dictionary compute_metrics returned to the caller
    failed_check,         \* what the validator called directly raised
    validated,            \* the transforms TransformationValidator.validate has
                          \* passed during the call
    icp_fitter,           \* the attributes IcpFitter.fit sets on the fitter:
                          \* source_cloud, target_cloud, initial_guess_transformation
    calls                 \* the fit calls running on icp_fitter, one per thread:
                          \* position, arguments, and what the call returned

vars == <<validator, request, status, cumulative,
          entry, source_points, target_points, rmse_threshold, fitter_threshold,
          enable_bidirectional, fgr_icp_fitter, pc, dir, source_aligned,
          target_aligned, initial_transform, icp, refined_transform, fgr_result,
          icp_result, executions, ret, fwd, best, fit_result, response, raised,
          attempts, max_iterations, transform, metrics, failed_check, validated,
          icp_fitter, calls>>

NoCloud == NdArray(<< >>)
NoIcp == [array |-> "none", current_transform |-> Identity,
          prev_error |-> Infinity, iteration |-> 0]

\* an assignment that binds the same array object instead of copying it
CopyShared(array) == array

\* current_transform = initial_transform.copy() (114): arrays are objects named
\* after the variable that first held them, and copy() makes a new one
Copy(array) == "current_transform"
NoTransform == NdTransform(BadTransform)
NoRet == [exc |-> NoExc, transformation |-> BadTransform, rmse |-> 0,
          max_error |-> 0, method |-> "none"]
NoBest == [transform |-> BadTransform, rmse |-> 0, max_error |-> 0,
           direction |-> "none", method |-> "none"]
NoResponse == [transformation |-> BadTransform, inlier_rmse |-> 0, max_error |-> 0,
               is_success |-> FALSE, direction |-> "none", method |-> "none"]

NoMetrics == [exc |-> NoExc, RMSE |-> None, MaxError |-> None,
              MeanError |-> None, MedianError |-> None]

\* the functions a caller calls
Entries == {"api", "run", "validate", "TransformationValidator.validate",
            "compute_metrics", "pca_registration", "icp_refinement", "fit",
            "endpoint", "cumulative_update"}

\* what request.get_json() gives for the body of a POST: "not_json" is a body
\* get_json raises on, "null" and "number" are JSON values that are no
\* object, and an object has the set of keys named
Body(kind, keys) == [kind |-> kind, keys |-> keys]
NoRequest == Body("none", {})
RequiredFields == {"source_points", "target_points"}
Requests == {Body("not_json", {}), Body("null", {}), Body("number", {})} \cup
            {Body("object", keys) : keys \in SUBSET RequiredFields}

\* the arrays np.array builds from the two lists of a complete body (328-329)
EndpointPairs == {<<Good100, Good100>>, <<Short99, Good100>>}

\* no response has been sent
NoStatus == 0

\* the threads calling IcpFitter.fit on one fitter
Threads == {1, 2}

\* the arguments of a fit call
FitArguments ==
    {[source_cloud |-> Good100, target_cloud |-> Good150,
      initial_guess_transformation |-> Identity],
     [source_cloud |-> Good150, target_cloud |-> Good100,
      initial_guess_transformation |-> 1],
     [source_cloud |-> Good100, target_cloud |-> Good100,
      initial_guess_transformation |-> Identity]}

\* the outcomes of registration_icp that decide how fit goes on: it raises,
\* it meets the threshold, it does not
FitOutcomes == {[raises |-> TRUE, transformation |-> Identity, inlier_rmse |-> 0],
                [raises |-> FALSE, transformation |-> Identity, inlier_rmse |-> 0],
                [raises |-> FALSE, transformation |-> Identity, inlier_rmse |-> MaxRmse]}

\* the fitter before any call
NoFitter == [source_cloud |-> NoCloud, target_cloud |-> NoCloud,
             initial_guess_transformation |-> Identity]

\* a call of fit(source_cloud, target_cloud, initial_guess_transformation)
\* about to run its first statement
FitCall(arguments) ==
    [pc |-> "source_cloud", arguments |-> arguments,
     exc |-> NoExc, result |-> NoFit, executions |-> << >>]

\* pairs of point sets with positions
PlacedPairs == {<<OnRing(a), OnRing(b)>> : a, b \in (SUBSET Ring) \ {{}}}

\* the point sets each function is called with
InputPairs(e) ==
    CASE e = "api" -> RequestPairs
      [] e = "endpoint" -> EndpointPairs
      [] e = "run" -> LoadedPairs
      [] e = "validate" -> {<<a, NoCloud>> : a \in ArrayInputs}
      [] e = "compute_metrics" -> PlacedPairs
      [] e = "pca_registration" -> RequestPairs
      [] e = "icp_refinement" ->
            PlacedPairs \cup {<<Good100, Good100>>, <<Short99, Good100>>}
      [] OTHER -> {<<NoCloud, NoCloud>>}

\* the transform argument of each function
InputTransforms(e) ==
    CASE e = "compute_metrics" -> {NdTransform(t) : t \in Transforms}
      [] e = "TransformationValidator.validate" -> MatrixInputs
      [] OTHER -> {NoTransform}

\* max_iterations: the caller's choice for a direct call of icp_refinement,
\* the default (50, scaled to the model) when the cascade calls it
InputBudgets(e) == IF e = "icp_refinement" THEN 0..MaxBudget ELSE {MaxIterations}

\* the function is called directly, not through the cascade
Direct == entry \notin {"api", "run", "endpoint"}

\* PointCloudAPI.__init__ builds FgrFitter() with no icp_fitter argument
ApiFgrIcpFitter == FALSE

Init ==
    /\ entry \in Entries
    /\ request \in (IF entry = "endpoint" THEN Requests ELSE {NoRequest})
    /\ status = NoStatus
    /\ cumulative \in (IF entry = "cumulative_update"
                       THEN {[initial_transform |-> m, current_transform |-> m,
                              increments |-> << >>] : m \in InitialMatrices}
                       ELSE {NoCumulative})
    /\ \E pair \in (IF entry = "endpoint" /\ request.keys # RequiredFields
                    THEN {<<NoCloud, NoCloud>>}
                    ELSE InputPairs(entry)) :
         /\ source_points = pair[1]
         /\ target_points = pair[2]
    /\ fitter_threshold \in (IF entry \in {"api", "run", "fit", "endpoint"}
                             THEN Thresholds ELSE {0})
    /\ rmse_threshold \in (IF entry \in {"api", "endpoint"}
                           THEN Thresholds ELSE {fitter_threshold})
    /\ enable_bidirectional \in (IF entry \in {"api", "endpoint"}
                                 THEN BOOLEAN ELSE {FALSE})
    /\ fgr_icp_fitter \in (IF entry = "run" THEN BOOLEAN ELSE {ApiFgrIcpFitter})
    /\ max_iterations \in InputBudgets(entry)
    /\ transform \in InputTransforms(entry)
    /\ validator \in (IF entry = "validate" THEN Validators ELSE {DefaultValidator})
    /\ pc = "start"
    /\ dir = "fwd"
    /\ source_aligned = NoCloud
    /\ target_aligned = NoCloud
    /\ initial_transform \in (IF entry = "icp_refinement"
                              THEN Transforms \cup {BadTransform}
                              ELSE {BadTransform})
    /\ icp = NoIcp
    /\ refined_transform = NoTransform
    /\ fgr_result = NoFit
    /\ icp_result = NoFit
    /\ executions = << >>
    /\ ret = NoRet
    /\ fwd = NoRet
    /\ best = NoBest
    /\ fit_result = NoFit
    /\ response = NoResponse
    /\ raised = NoExc
    /\ attempts = << >>
    /\ metrics = NoMetrics
    /\ failed_check = Passed
    /\ validated = {}
    /\ icp_fitter = NoFitter
    /\ calls \in (IF entry = "fit"
                  THEN [Threads -> {FitCall(a) : a \in FitArguments}]
                  ELSE {<< >>})

\* the source and target arguments of the running register_with_fallback
\* call, or of the function called directly
Source == IF Direct THEN source_points
          ELSE IF dir = "fwd" THEN source_aligned ELSE target_aligned
Target == IF Direct THEN target_points
          ELSE IF dir = "fwd" THEN target_aligned ELSE source_aligned

\* one entry of the attempts log
\*   exc        the exception the stage ended with, NoExc if it completed
\*   met        the stage's threshold test passed and the cascade ended there
\*   score      RMSE against the target of the transform the stage produced
\*              (None when it produced none or did not measure it)
\*   validation the stage ended on a point-set validation failure
Attempt(stage, exc, met, score, validation) ==
    [stage |-> stage, exc |-> exc, met |-> met, score |-> score,
     validation |-> validation]

Logged(a) == Append(attempts, a)

Arguments == <<entry, source_points, target_points, rmse_threshold, fitter_threshold,
               enable_bidirectional, fgr_icp_fitter, max_iterations, transform,
               validator, request>>
Config == <<Arguments, status, cumulative, icp_fitter, calls>>
Stage1Vars == <<initial_transform, icp, refined_transform>>
FitterVars == <<fgr_result, icp_result, executions>>
OutVars == <<fwd, best, fit_result, response, raised>>
CallVars == <<metrics, failed_check>>

\* the locals of stage 1 are not read after the stage
ForgetStage1 ==
    /\ initial_transform' = BadTransform
    /\ icp' = NoIcp
    /\ refined_transform' = NoTransform

\* the fitter results are not read after the stage that used them
ForgetFitters ==
    /\ fgr_result' = NoFit
    /\ icp_result' = NoFit
    /\ executions' = << >>

\* ============================================ PointCloudAPI: entry (211-217)
\* process_point_clouds: validate_pair, then align_cloud_sizes
ValidateInputs ==
    /\ pc = (IF entry = "endpoint" THEN "process" ELSE "start")
    /\ entry \in {"api", "endpoint"}
    /\ LET e == ValidatePair(source_points, target_points)
           aligned == AlignCloudSizes(source_points, target_points)
       IN  IF e # NoExc
           THEN /\ raised' = e
                /\ pc' = "done"
                /\ UNCHANGED <<source_aligned, target_aligned>>
           ELSE /\ source_aligned' = aligned[1]
                /\ target_aligned' = aligned[2]
                /\ pc' = "pca"
                /\ UNCHANGED raised
    /\ UNCHANGED <<Config, CallVars, validated, dir, Stage1Vars, FitterVars, ret, fwd, best,
                   fit_result, response, attempts>>

\* ======================================= register_with_fallback: stage 1
\* An exception inside the first try block (105-136): "except RegistrationError"
\* goes on to stage 2, anything else leaves register_with_fallback.
Stage1Except(e, score, validation) ==
    /\ attempts' = Logged(Attempt(1, e, FALSE, score, validation))
    /\ ForgetStage1
    /\ IF IsRegistrationError(e)
       THEN /\ pc' = "stage2"
            /\ UNCHANGED ret
       ELSE /\ pc' = "returned"
            /\ ret' = [NoRet EXCEPT !.exc = e]

\* a pca_registration that returns its matrix without validating it
PcaRegistrationUnchecked(source, target, svd) ==
    IF ValidatePair(source, target) # NoExc
    THEN [exc |-> "RegistrationError", T |-> BadTransform, validation |-> TRUE]
    ELSE [exc |-> NoExc, T |-> svd, validation |-> FALSE]

\* pca_registration: every exception, a validation failure included, is
\* re-raised as RegistrationError (73-75).  svd is the matrix built from the
\* SVD factors.
PcaRegistration(source, target, svd) ==
    IF ValidatePair(source, target) # NoExc
    THEN [exc |-> "RegistrationError", T |-> BadTransform, validation |-> TRUE]
    ELSE IF TransformationValidate(svd) # NoExc
    THEN [exc |-> "RegistrationError", T |-> BadTransform, validation |-> FALSE]
    ELSE [exc |-> NoExc, T |-> svd, validation |-> FALSE]

Stage1Pca ==
    /\ pc = "pca"
    /\ \E svd \in Transforms \cup {BadTransform} :
         LET r == PcaRegistration(Source, Target, svd)
         IN  IF r.exc # NoExc
             THEN /\ Stage1Except(r.exc, None, r.validation)
                  /\ UNCHANGED validated
             ELSE /\ initial_transform' = r.T
                  /\ validated' = validated \cup {r.T}
                  /\ pc' = "icp"
                  /\ UNCHANGED <<icp, refined_transform, attempts, ret>>
    /\ UNCHANGED <<Config, CallVars, dir, source_aligned, target_aligned, FitterVars, OutVars>>

\* an exception leaving icp_refinement: it reaches the caller of a direct
\* call, and the first try block of register_with_fallback otherwise
IcpRaise(e, validation) ==
    IF entry = "icp_refinement"
    THEN /\ raised' = e
         /\ pc' = "done"
         /\ UNCHANGED <<initial_transform, icp, refined_transform, attempts, ret>>
    ELSE /\ Stage1Except(e, None, validation)
         /\ UNCHANGED raised

\* a loop that starts with a previous error of 0
IcpStartZero ==
    /\ pc = (IF entry = "icp_refinement" THEN "start" ELSE "icp")
    /\ entry \in {"api", "endpoint", "icp_refinement"}
    /\ IF ValidatePair(Source, Target) # NoExc
       THEN /\ IcpRaise("RegistrationError", TRUE)
            /\ UNCHANGED validated
       ELSE IF TransformationValidate(initial_transform) # NoExc
       THEN /\ IcpRaise("RegistrationError", FALSE)
            /\ UNCHANGED validated
       ELSE /\ icp' = [array |-> Copy("initial_transform"),
                       current_transform |-> initial_transform,
                       prev_error |-> 0,
                       iteration |-> 0]
            /\ validated' = validated \cup {initial_transform}
            /\ pc' = "icp_loop"
            /\ UNCHANGED <<initial_transform, refined_transform, attempts, ret, raised>>
    /\ UNCHANGED <<Config, CallVars, dir, source_aligned, target_aligned, FitterVars,
                   fwd, best, fit_result, response>>

\* icp_refinement, up to the loop (104-115): a failed validation is re-raised
\* as RegistrationError (168-170)
IcpStart ==
    /\ pc = (IF entry = "icp_refinement" THEN "start" ELSE "icp")
    /\ entry \in {"api", "endpoint", "icp_refinement"}
    /\ IF ValidatePair(Source, Target) # NoExc
       THEN /\ IcpRaise("RegistrationError", TRUE)
            /\ UNCHANGED validated
       ELSE IF TransformationValidate(initial_transform) # NoExc
       THEN /\ IcpRaise("RegistrationError", FALSE)
            /\ UNCHANGED validated
       ELSE /\ icp' = [array |-> Copy("initial_transform"),
                       current_transform |-> initial_transform,
                       prev_error |-> Infinity,
                       iteration |-> 0]
            /\ validated' = validated \cup {initial_transform}
            /\ pc' = "icp_loop"
            /\ UNCHANGED <<initial_transform, refined_transform, attempts, ret, raised>>
    /\ UNCHANGED <<Config, CallVars, dir, source_aligned, target_aligned, FitterVars,
                   fwd, best, fit_result, response>>

\* refined_transform = RegistrationAlgorithms.icp_refinement(...) (app.py 112):
\* the returned tuple is bound whole
AssignRefined(icp_return) == icp_return

\* a convergence test that also passes when the change equals the tolerance
ConvergedInclusive(error, prev_error) ==
    /\ prev_error # Infinity
    /\ Abs(error - prev_error) <= Tolerance

\* np.abs(error - prev_error) < tolerance, prev_error starting at np.inf
Converged(error, prev_error) ==
    /\ prev_error # Infinity
    /\ Abs(error - prev_error) < Tolerance

\* one pass of the loop body (117-158); error is the mean nearest-neighbour
\* distance, R the incremental motion the SVD yields; the update (157-158)
\* writes into the array current_transform names, and so into every variable
\* naming that array; an exception of the numerical kernel is re-raised as
\* RegistrationError (168-170)
IcpIterate ==
    /\ pc = "icp_loop"
    /\ icp.iteration < max_iterations
    /\ \E error \in MeanResiduals(Source, Target, icp.current_transform),
          R \in Increments(Source, Target, icp.current_transform),
          svd_raises \in KernelRaises(Source, Target) :
         IF Converged(error, icp.prev_error)
         THEN /\ refined_transform' =
                    AssignRefined(IcpReturn(icp.current_transform,
                                            icp.iteration + 1, error))
              /\ pc' = (IF entry = "icp_refinement" THEN "done" ELSE "metrics")
              /\ UNCHANGED <<initial_transform, icp, attempts, ret, raised>>
         ELSE IF svd_raises
         THEN IcpRaise("RegistrationError", FALSE)
         ELSE /\ icp' = [array |-> icp.array,
                         current_transform |-> Compose(R, icp.current_transform),
                         prev_error |-> error,
                         iteration |-> icp.iteration + 1]
              /\ initial_transform' =
                    (IF icp.array = "initial_transform"
                     THEN Compose(R, icp.current_transform)
                     ELSE initial_transform)
              /\ UNCHANGED <<pc, refined_transform, attempts, ret, raised>>
    /\ UNCHANGED <<Config, CallVars, validated, dir, source_aligned, target_aligned,
                   FitterVars, fwd, best, fit_result, response>>

\* a loop that, when it runs out, hands back the transform it has
IcpExhaustedReturns ==
    /\ pc = "icp_loop"
    /\ icp.iteration >= max_iterations
    /\ refined_transform' = AssignRefined(IcpReturn(icp.current_transform,
                                                    icp.iteration, icp.prev_error))
    /\ pc' = (IF entry = "icp_refinement" THEN "done" ELSE "metrics")
    /\ UNCHANGED <<initial_transform, icp, attempts, ret, raised>>
    /\ UNCHANGED <<Config, CallVars, validated, dir, source_aligned, target_aligned,
                   FitterVars, fwd, best, fit_result, response>>

\* the loop ran out (160-164)
IcpExhausted ==
    /\ pc = "icp_loop"
    /\ icp.iteration >= max_iterations
    /\ IcpRaise("ConvergenceError", FALSE)
    /\ UNCHANGED <<Config, CallVars, validated, dir, source_aligned, target_aligned,
                   FitterVars, fwd, best, fit_result, response>>

\* compute_metrics on refined_transform and the threshold test (116-133)
Stage1Metrics ==
    /\ pc = "metrics"
    /\ \E m \in MetricsOf(Source, Target, refined_transform.T) :
         LET r == ComputeMetrics(refined_transform, m)
         IN  IF r.exc # NoExc
             THEN Stage1Except(r.exc, m.RMSE, FALSE)
             ELSE IF r.RMSE <= rmse_threshold
             THEN /\ ret' = [exc |-> NoExc,
                             transformation |-> refined_transform.T,
                             rmse |-> r.RMSE,
                             max_error |-> r.MaxError,
                             method |-> "Custom ICP"]
                  /\ pc' = "returned"
                  /\ attempts' = Logged(Attempt(1, NoExc, TRUE, r.RMSE, FALSE))
                  /\ ForgetStage1
             ELSE /\ pc' = "stage2"
                  /\ attempts' = Logged(Attempt(1, NoExc, FALSE, r.RMSE, FALSE))
                  /\ ForgetStage1
                  /\ UNCHANGED ret
    /\ UNCHANGED <<Config, CallVars, validated, dir, source_aligned, target_aligned, FitterVars, OutVars>>

\* ================================== register_with_fallback: stages 2, 3, 4
\* An exception inside the second try block (141-187) leaves
\* register_with_fallback as RegistrationError("All registration methods failed")
FallbackExcept(stage) ==
    /\ attempts' = Logged(Attempt(stage, "RegistrationError", FALSE, None, FALSE))
    /\ ret' = [NoRet EXCEPT !.exc = "RegistrationError"]
    /\ pc' = "returned"

\* stage 2: self.fgr_fitter.fit and its success test (143-155); m is what
\* compute_metrics gives for the transform the stage returns
Stage2 ==
    /\ pc = "stage2"
    /\ \E g \in FgrOutcomes, m \in Metrics :
       \E o1 \in (IF fgr_icp_fitter /\ ~g.raises THEN IcpOutcomes ELSE {NoOutcome}) :
       \E o2 \in SecondOutcomes(Source, Target, fitter_threshold, o1) :
         LET f == FgrFitterFit(Source, Target, fitter_threshold, fgr_icp_fitter,
                               g, o1, o2)
         IN  /\ fgr_result' = f.result
             /\ executions' = f.executions
             /\ IF f.exc # NoExc
                THEN FallbackExcept(2)
                ELSE IF f.result.is_success
                THEN /\ ret' = [exc |-> NoExc,
                                transformation |-> f.result.transformation,
                                rmse |-> f.result.inlier_rmse,
                                max_error |-> m.MaxError,
                                method |-> "FGR"]
                     /\ pc' = "returned"
                     /\ attempts' = Logged(Attempt(2, NoExc, TRUE, m.RMSE, FALSE))
                ELSE /\ pc' = "stage3"
                     /\ attempts' = Logged(Attempt(2, NoExc, FALSE, None, FALSE))
                     /\ UNCHANGED ret
    /\ UNCHANGED <<Config, CallVars, validated, dir, source_aligned, target_aligned, Stage1Vars,
                   icp_result, OutVars>>

\* stage 3: self.icp_fitter.fit from the identity and its success test (157-170)
Stage3 ==
    /\ pc = "stage3"
    /\ \E o1 \in IcpOutcomes, m \in Metrics :
       \E o2 \in SecondOutcomes(Source, Target, fitter_threshold, o1) :
         LET r == IcpFitterFit(Source, Target, Identity, fitter_threshold, o1, o2)
         IN  /\ icp_result' = r.result
             /\ executions' = r.executions
             /\ IF r.exc # NoExc
                THEN FallbackExcept(3)
                ELSE IF r.result.is_success
                THEN /\ ret' = [exc |-> NoExc,
                                transformation |-> r.result.transformation,
                                rmse |-> r.result.inlier_rmse,
                                max_error |-> m.MaxError,
                                method |-> "ICP"]
                     /\ pc' = "returned"
                     /\ attempts' = Logged(Attempt(3, NoExc, TRUE,
                                                   r.result.inlier_rmse, FALSE))
                ELSE /\ pc' = "stage4"
                     /\ attempts' = Logged(Attempt(3, NoExc, FALSE,
                                                   r.result.inlier_rmse, FALSE))
                     /\ UNCHANGED ret
    /\ fgr_result' = NoFit
    /\ UNCHANGED <<Config, CallVars, validated, dir, source_aligned, target_aligned, Stage1Vars, OutVars>>

\* stage 4: the identity with its metrics (172-183)
Stage4 ==
    /\ pc = "stage4"
    /\ \E m \in MetricsOf(Source, Target, Identity) :
         LET r == ComputeMetrics(NdTransform(Identity), m)
         IN  /\ ret' = [exc |-> NoExc,
                        transformation |-> Identity,
                        rmse |-> r.RMSE,
                        max_error |-> r.MaxError,
                        method |-> "Failed (Identity)"]
             /\ attempts' = Logged(Attempt(4, NoExc, FALSE, r.RMSE, FALSE))
    /\ pc' = "returned"
    /\ ForgetFitters
    /\ UNCHANGED <<Config, CallVars, validated, dir, source_aligned, target_aligned, Stage1Vars, OutVars>>

\* ======================== process_point_clouds after register_with_fallback
\* the forward call has ended (219-234): an exception leaves the entry point
AfterForward ==
    /\ pc = "returned"
    /\ dir = "fwd"
    /\ IF ret.exc # NoExc
       THEN /\ raised' = ret.exc
            /\ pc' = "done"
            /\ UNCHANGED <<fwd, best, dir, ret, attempts>>
       ELSE /\ fwd' = ret
            /\ best' = [transform |-> ret.transformation,
                        rmse |-> ret.rmse,
                        max_error |-> ret.max_error,
                        direction |-> "Forward",
                        method |-> ret.method]
            /\ IF enable_bidirectional
               THEN /\ dir' = "rev"
                    /\ pc' = "pca"
                    /\ ret' = NoRet
                    /\ attempts' = << >>
               ELSE /\ pc' = "result"
                    /\ UNCHANGED <<dir, ret, attempts>>
            /\ UNCHANGED raised
    /\ ForgetFitters
    /\ UNCHANGED <<Config, CallVars, validated, source_aligned, target_aligned, Stage1Vars,
                   fit_result, response>>

\* a selection that prefers the reverse result on a tie
SelectBestNonStrict(forward, reverse, current) ==
    IF reverse.rmse <= forward.rmse
    THEN [transform |-> Inv(reverse.transformation),
          rmse |-> reverse.rmse,
          max_error |-> reverse.max_error,
          direction |-> "Reverse",
          method |-> reverse.method]
    ELSE current

\* if rmse_rev < rmse_fwd the reverse result replaces the forward one, its
\* transform inverted (244-259)
SelectBest(forward, reverse, current) ==
    IF reverse.rmse < forward.rmse
    THEN [transform |-> Inv(reverse.transformation),
          rmse |-> reverse.rmse,
          max_error |-> reverse.max_error,
          direction |-> "Reverse",
          method |-> reverse.method]
    ELSE current

\* a reverse call whose exception leaves process_point_clouds
AfterReversePropagates ==
    /\ pc = "returned"
    /\ dir = "rev"
    /\ IF ret.exc # NoExc
       THEN /\ raised' = ret.exc
            /\ pc' = "done"
            /\ UNCHANGED best
       ELSE /\ best' = SelectBest(fwd, ret, best)
            /\ pc' = "result"
            /\ UNCHANGED raised
    /\ ForgetFitters
    /\ UNCHANGED <<Config, CallVars, validated, dir, source_aligned, target_aligned, Stage1Vars,
                   ret, fwd, fit_result, response, attempts>>

\* the reverse call has ended (236-262): an exception is swallowed
AfterReverse ==
    /\ pc = "returned"
    /\ dir = "rev"
    /\ best' = IF ret.exc # NoExc THEN best ELSE SelectBest(fwd, ret, best)
    /\ pc' = "result"
    /\ ForgetFitters
    /\ UNCHANGED <<Config, CallVars, validated, dir, source_aligned, target_aligned, Stage1Vars,
                   ret, fwd, fit_result, response, raised, attempts>>

\* the FitResult and the returned dictionary (269-283)
CreateResult ==
    /\ pc = "result"
    /\ LET r == FitResult(best.transform, best.rmse, rmse_threshold, best.max_error)
       IN  /\ fit_result' = r
           /\ response' = [transformation |-> r.transformation,
                           inlier_rmse |-> r.inlier_rmse,
                           max_error |-> r.max_error,
                           is_success |-> r.is_success,
                           direction |-> best.direction,
                           method |-> best.method]
    /\ pc' = "done"
    /\ UNCHANGED <<Config, CallVars, validated, dir, source_aligned, target_aligned, Stage1Vars,
                   FitterVars, ret, fwd, best, raised, attempts>>

\* ======================================= app.py: /process_point_clouds
\* `not data` (317): None, 0, false and the empty object are falsy
Falsy(data) == data.kind = "null" \/ (data.kind = "object" /\ data.keys = {})

\* 'source_points' not in data or 'target_points' not in data (321): the
\* membership test raises TypeError on a value that is no container
MissingFields(data) ==
    IF data.kind # "object" THEN [exc |-> "TypeError", missing |-> FALSE]
    ELSE [exc |-> NoExc, missing |-> ~(RequiredFields \subseteq data.keys)]

\* the except clauses of the endpoint, in their order (336-350)
ExceptStatus(e) ==
    IF IsValidationError(e) THEN 400
    ELSE IF IsRegistrationError(e) THEN 500
    ELSE IF e \in {"PointCloudLoadError", "ConfigurationError"} THEN 500
    ELSE 500

\* the endpoint up to the call of process_point_clouds (313-329)
EndpointParse ==
    /\ pc = "start"
    /\ entry = "endpoint"
    /\ IF request.kind = "not_json"
       THEN /\ status' = ExceptStatus("BadRequest")
            /\ pc' = "responded"
       ELSE IF Falsy(request)
       THEN /\ status' = 400
            /\ pc' = "responded"
       ELSE IF MissingFields(request).exc # NoExc
       THEN /\ status' = ExceptStatus(MissingFields(request).exc)
            /\ pc' = "responded"
       ELSE IF MissingFields(request).missing
       THEN /\ status' = 400
            /\ pc' = "responded"
       ELSE /\ pc' = "process"
            /\ UNCHANGED status
    /\ UNCHANGED <<Arguments, cumulative, icp_fitter, calls, CallVars, validated, dir,
                   source_aligned, target_aligned, Stage1Vars, FitterVars, ret,
                   OutVars, attempts>>

\* process_point_clouds has returned or raised (332-350)
EndpointRespond ==
    /\ pc = "done"
    /\ entry = "endpoint"
    /\ status' = (IF raised = NoExc THEN 200 ELSE ExceptStatus(raised))
    /\ pc' = "responded"
    /\ UNCHANGED <<Arguments, cumulative, icp_fitter, calls, CallVars, validated, dir,
                   source_aligned, target_aligned, Stage1Vars, FitterVars, ret,
                   OutVars, attempts>>

\* one more pass of the loop of icp_refinement, on matrices: the SVD step
\* yields R and t and the cumulative transform is updated in place (157-158)
UpdateCumulative ==
    /\ entry = "cumulative_update"
    /\ Len(cumulative.increments) < MaxUpdates
    /\ \E inc \in IncrementMatrices :
         cumulative' =
            [initial_transform |-> cumulative.initial_transform,
             current_transform |->
                UpdateTransform(cumulative.current_transform, inc.R, inc.t),
             increments |-> Append(cumulative.increments, inc)]
    /\ UNCHANGED <<Arguments, status, icp_fitter, calls, CallVars, validated, pc, dir,
                   source_aligned, target_aligned, Stage1Vars, FitterVars, ret,
                   OutVars, attempts>>

\* ========================================================= CascadedFitter.run
\* _create_result_dict
CreateResultDict(r, method) ==
    [transformation |-> r.transformation,
     inlier_rmse |-> r.inlier_rmse,
     max_error |-> r.max_error,
     is_success |-> r.is_success,
     direction |-> "none",
     method |-> method]

\* _read_point_clouds (68): a PointCloudLoadError is not a RegistrationError
\* and is re-raised as RegistrationError (87-91)
RunRead ==
    /\ pc = "start"
    /\ entry = "run"
    /\ \E loaded \in BOOLEAN :
         IF loaded
         THEN /\ pc' = "run_icp"
              /\ UNCHANGED raised
         ELSE /\ pc' = "done"
              /\ raised' = "RegistrationError"
    /\ UNCHANGED <<Config, CallVars, validated, dir, source_aligned, target_aligned, Stage1Vars,
                   FitterVars, ret, fwd, best, fit_result, response, attempts>>

\* _try_icp_fit and its success test (70-74)
RunIcp ==
    /\ pc = "run_icp"
    /\ \E o1 \in IcpOutcomes :
       \E o2 \in SecondOutcomes(source_points, target_points, fitter_threshold, o1) :
         LET r == IcpFitterFit(source_points, target_points, Identity,
                               fitter_threshold, o1, o2)
         IN  /\ icp_result' = r.result
             /\ executions' = r.executions
             /\ IF r.exc # NoExc
                THEN /\ raised' = r.exc
                     /\ pc' = "done"
                     /\ UNCHANGED response
                ELSE IF r.result.is_success
                THEN /\ response' = CreateResultDict(r.result, "ICP")
                     /\ pc' = "done"
                     /\ UNCHANGED raised
                ELSE /\ pc' = "run_fgr"
                     /\ UNCHANGED <<raised, response>>
    /\ UNCHANGED <<Config, CallVars, validated, dir, source_aligned, target_aligned, Stage1Vars,
                   fgr_result, ret, fwd, best, fit_result, attempts>>

\* a run that hands back the unsuccessful FGR result when both fits failed
RunFgrReturns ==
    /\ pc = "run_fgr"
    /\ \E g \in FgrOutcomes :
       \E o1 \in (IF fgr_icp_fitter /\ ~g.raises THEN IcpOutcomes ELSE {NoOutcome}) :
       \E o2 \in SecondOutcomes(source_points, target_points, fitter_threshold, o1) :
         LET f == FgrFitterFit(source_points, target_points, fitter_threshold,
                               fgr_icp_fitter, g, o1, o2)
         IN  /\ fgr_result' = f.result
             /\ executions' = f.executions
             /\ IF f.exc # NoExc
                THEN /\ raised' = f.exc
                     /\ UNCHANGED response
                ELSE /\ response' = CreateResultDict(f.result, "FGR+ICP")
                     /\ UNCHANGED raised
    /\ icp_result' = NoFit
    /\ pc' = "done"
    /\ UNCHANGED <<Config, CallVars, validated, dir, source_aligned, target_aligned, Stage1Vars,
                   ret, fwd, best, fit_result, attempts>>

\* _try_fgr_fit, its success test, and the final ConvergenceError (76-85)
RunFgr ==
    /\ pc = "run_fgr"
    /\ \E g \in FgrOutcomes :
       \E o1 \in (IF fgr_icp_fitter /\ ~g.raises THEN IcpOutcomes ELSE {NoOutcome}) :
       \E o2 \in SecondOutcomes(source_points, target_points, fitter_threshold, o1) :
         LET f == FgrFitterFit(source_points, target_points, fitter_threshold,
                               fgr_icp_fitter, g, o1, o2)
         IN  /\ fgr_result' = f.result
             /\ executions' = f.executions
             /\ IF f.exc # NoExc
                THEN /\ raised' = f.exc
                     /\ UNCHANGED response
                ELSE IF f.result.is_success
                THEN /\ response' = CreateResultDict(f.result, "FGR+ICP")
                     /\ UNCHANGED raised
                ELSE /\ raised' = "ConvergenceError"
                     /\ UNCHANGED response
    /\ icp_result' = NoFit
    /\ pc' = "done"
    /\ UNCHANGED <<Config, CallVars, validated, dir, source_aligned, target_aligned, Stage1Vars,
                   ret, fwd, best, fit_result, attempts>>

\* ============================================== functions called directly
\* PointCloudValidator().validate(points)
ValidateCall ==
    /\ pc = "start"
    /\ entry = "validate"
    /\ failed_check' = ValidateChecksWith(validator, source_points)
    /\ raised' = ValidateChecksWith(validator, source_points).exc
    /\ pc' = "done"
    /\ UNCHANGED <<Config, validated, metrics, dir, source_aligned, target_aligned,
                   Stage1Vars, FitterVars, ret, fwd, best, fit_result, response,
                   attempts>>

\* TransformationValidator.validate(transform)
TransformationValidateCall ==
    /\ pc = "start"
    /\ entry = "TransformationValidator.validate"
    /\ failed_check' = TransformationValidatorChecks(transform)
    /\ raised' = TransformationValidatorChecks(transform).exc
    /\ pc' = "done"
    /\ UNCHANGED <<Config, validated, metrics, dir, source_aligned, target_aligned,
                   Stage1Vars, FitterVars, ret, fwd, best, fit_result, response,
                   attempts>>

\* MetricsCalculator.compute_metrics(source, target, transform)
ComputeMetricsCall ==
    /\ pc = "start"
    /\ entry = "compute_metrics"
    /\ \E m \in MetricsOf(source_points, target_points, transform.T) :
         /\ metrics' = ComputeMetrics(transform, m)
         /\ raised' = ComputeMetrics(transform, m).exc
    /\ pc' = "done"
    /\ UNCHANGED <<Config, validated, failed_check, dir, source_aligned,
                   target_aligned, Stage1Vars, FitterVars, ret, fwd, best,
                   fit_result, response, attempts>>

\* RegistrationAlgorithms.pca_registration(source, target); the returned
\* matrix is kept in initial_transform
PcaRegistrationCall ==
    /\ pc = "start"
    /\ entry = "pca_registration"
    /\ \E svd \in Transforms \cup {BadTransform} :
         LET r == PcaRegistration(source_points, target_points, svd)
         IN  /\ raised' = r.exc
             /\ initial_transform' = r.T
             /\ validated' = IF r.exc = NoExc THEN validated \cup {r.T} ELSE validated
    /\ pc' = "done"
    /\ UNCHANGED <<Config, CallVars, dir, source_aligned, target_aligned, icp,
                   refined_transform, FitterVars, ret, fwd, best, fit_result,
                   response, attempts>>

\* ================================== IcpFitter.fit, called by several threads
\* everything but the fitter and the calls
Sequential == <<Arguments, status, cumulative, CallVars, validated, pc, dir, source_aligned,
                target_aligned, Stage1Vars, FitterVars, ret, fwd, best, fit_result,
                response, raised, attempts>>

\* self.source_cloud = source_cloud (81)
FitStoreSource(t) ==
    /\ entry = "fit"
    /\ calls[t].pc = "source_cloud"
    /\ icp_fitter' = [icp_fitter EXCEPT !.source_cloud = calls[t].arguments.source_cloud]
    /\ calls' = [calls EXCEPT ![t].pc = "target_cloud"]
    /\ UNCHANGED Sequential

\* self.target_cloud = target_cloud (82)
FitStoreTarget(t) ==
    /\ entry = "fit"
    /\ calls[t].pc = "target_cloud"
    /\ icp_fitter' = [icp_fitter EXCEPT !.target_cloud = calls[t].arguments.target_cloud]
    /\ calls' = [calls EXCEPT ![t].pc = "initial_guess_transformation"]
    /\ UNCHANGED Sequential

\* self.initial_guess_transformation = initial_guess_transformation (83) and
\* the size test on the arguments (86-89)
FitStoreInitial(t) ==
    /\ entry = "fit"
    /\ calls[t].pc = "initial_guess_transformation"
    /\ icp_fitter' = [icp_fitter EXCEPT !.initial_guess_transformation =
                          calls[t].arguments.initial_guess_transformation]
    /\ calls' = [calls EXCEPT ![t].pc =
                    IF PyLen(calls[t].arguments.source_cloud) >
                       PyLen(calls[t].arguments.target_cloud)
                    THEN "_fit_swapped" ELSE "forward_icp"]
    /\ UNCHANGED Sequential

\* a call ends with what r holds
FitReturn(t, r, before) ==
    calls' = [calls EXCEPT ![t].pc = "done",
                           ![t].exc = r.exc,
                           ![t].result = r.result,
                           ![t].executions = before \o r.executions]

\* result = self._fit_swapped(); return result (92-93): the clouds and the
\* initial guess are read from the fitter
FitRunSwapped(t) ==
    /\ entry = "fit"
    /\ calls[t].pc = "_fit_swapped"
    /\ \E o \in FitOutcomes :
         FitReturn(t, FitSwapped(icp_fitter.source_cloud, icp_fitter.target_cloud,
                                 icp_fitter.initial_guess_transformation,
                                 fitter_threshold, o), << >>)
    /\ UNCHANGED <<Sequential, icp_fitter>>

\* forward_result = self.forward_icp() and its success test (96-98)
FitRunForward(t) ==
    /\ entry = "fit"
    /\ calls[t].pc = "forward_icp"
    /\ \E o \in FitOutcomes :
         LET r == ForwardIcp(icp_fitter.source_cloud, icp_fitter.target_cloud,
                             icp_fitter.initial_guess_transformation,
                             fitter_threshold, o)
         IN  IF r.exc # NoExc \/ r.result.is_success
             THEN FitReturn(t, r, << >>)
             ELSE calls' = [calls EXCEPT ![t].pc = "reverse_icp",
                                         ![t].executions = r.executions]
    /\ UNCHANGED <<Sequential, icp_fitter>>

\* reverse_result = self.reverse_icp(); return reverse_result (101-102)
FitRunReverse(t) ==
    /\ entry = "fit"
    /\ calls[t].pc = "reverse_icp"
    /\ \E o \in FitOutcomes :
         FitReturn(t, ReverseIcp(icp_fitter.source_cloud, icp_fitter.target_cloud,
                                 icp_fitter.initial_guess_transformation,
                                 fitter_threshold, o), calls[t].executions)
    /\ UNCHANGED <<Sequential, icp_fitter>>

Next ==
    \/ ValidateInputs
    \/ Stage1Pca
    \/ IcpStart
    \/ IcpIterate
    \/ IcpExhausted
    \/ Stage1Metrics
    \/ Stage2
    \/ Stage3
    \/ Stage4
    \/ AfterForward
    \/ AfterReverse
    \/ CreateResult
    \/ RunRead
    \/ RunIcp
    \/ RunFgr
    \/ ValidateCall
    \/ TransformationValidateCall
    \/ ComputeMetricsCall
    \/ PcaRegistrationCall
    \/ \E t \in Threads : FitStoreSource(t)
    \/ \E t \in Threads : FitStoreTarget(t)
    \/ \E t \in Threads : FitStoreInitial(t)
    \/ \E t \in Threads : FitRunSwapped(t)
    \/ \E t \in Threads : FitRunForward(t)
    \/ \E t \in Threads : FitRunReverse(t)
    \/ EndpointParse
    \/ EndpointRespond
    \/ UpdateCumulative

Spec == Init /\ [][Next]_vars

TypeOK ==
    /\ pc \in {"start", "pca", "icp", "icp_loop", "metrics", "stage2", "stage3",
               "stage4", "returned", "result", "run_icp", "run_fgr", "done",
               "process", "responded"}
    /\ dir \in {"fwd", "rev"}
    /\ validator \in Validators
    /\ request \in Requests \cup {NoRequest}
    /\ status \in {NoStatus, 200, 400, 500}

\* ================================================================== claims
ApiRequest == entry = "api"
CallEnded == pc \in {"returned", "result", "done"}
LastAttempt == attempts[Len(attempts)]

\* the threshold a stage's success test uses: stage 1 and the final result use
\* the API threshold, the fitters of stages 2 and 3 their own
StageThreshold(stage) == IF stage \in {1, 4} THEN rmse_threshold ELSE fitter_threshold

\* the stage's computation returned a transform that was scored
Scored(a) == a.score # None

\* the stage did not meet the threshold: it raised a recoverable error, or it
\* completed with a transform scoring at or above the threshold
Unmet(a) == /\ ~a.met
            /\ a.score = None \/ a.score >= StageThreshold(a.stage)

\* C1: when stage 1 (pca_registration, then icp_refinement) completes in the
\* forward direction and the refined transform scores below the threshold,
\* process_point_clouds does not raise: the forward call returns that RMSE
\* with method "Custom ICP" and the response has is_success = TRUE.
C1_Stage1SuccessReturns ==
    (/\ ApiRequest
     /\ dir = "fwd"
     /\ CallEnded
     /\ Len(attempts) = 1
     /\ Scored(attempts[1])
     /\ attempts[1].score < rmse_threshold)
    => /\ raised = NoExc
       /\ ret.exc = NoExc
       /\ ret.rmse = attempts[1].score
       /\ ret.method = "Custom ICP"
       /\ pc = "done" /\ ~enable_bidirectional =>
             /\ response.is_success
             /\ response.inlier_rmse = attempts[1].score

\* C2: the stages of a register_with_fallback call run in the order 1, 2, 3, 4;
\* a stage is attempted only after the stage before it failed to meet the
\* threshold, and a call ends at a stage before the fourth only when that
\* stage's transform scores below the threshold.
C2_StageOrder ==
    ApiRequest =>
        /\ \A i \in 1..Len(attempts) : attempts[i].stage = i
        /\ \A i \in 2..Len(attempts) : Unmet(attempts[i - 1])
        /\ (CallEnded /\ attempts # << >> /\ Scored(LastAttempt)) =>
              \/ LastAttempt.stage = 4
              \/ /\ LastAttempt.met
                 /\ LastAttempt.score < StageThreshold(LastAttempt.stage)

\* C3: when every stage of the forward cascade that has run completed with a
\* transform scoring at or above the threshold, the request ends with the
\* identity transform and is_success = FALSE (and not with an exception).
C3_AllFailIdentity ==
    (/\ ApiRequest
     /\ dir = "fwd"
     /\ pc = "done"
     /\ attempts # << >>
     /\ \A i \in 1..Len(attempts) :
           /\ ~IsRegistrationError(attempts[i].exc)
           /\ Scored(attempts[i])
           /\ attempts[i].score >= StageThreshold(attempts[i].stage))
    => /\ raised = NoExc
       /\ LastAttempt.stage = 4
       /\ response.transformation = Identity
       /\ ~response.is_success

\* C4: a point-set validation failure is fatal: when validate_pair fails at the
\* entry no stage is run and the validation error reaches the caller, and a
\* validation failure inside a stage ends the cascade, no later stage being
\* attempted.
C4_ValidationFatal ==
    ApiRequest =>
        /\ ValidatePair(source_points, target_points) # NoExc =>
              /\ attempts = << >>
              /\ pc \in {"start", "done"}
              /\ pc = "done" => IsValidationError(raised)
        /\ \A i \in 1..Len(attempts) :
              attempts[i].validation =>
                  /\ i = Len(attempts)
                  /\ pc \notin {"stage2", "stage3", "stage4"}

\* C5: a RegistrationError or ConvergenceError raised inside stage 1, 2 or 3 is
\* turned into "try the next stage": it never ends the cascade.
C5_StageErrorsEscalate ==
    (/\ ApiRequest
     /\ attempts # << >>
     /\ LastAttempt.stage \in 1..3
     /\ IsRegistrationError(LastAttempt.exc))
    => /\ ~CallEnded
       /\ raised = NoExc

\* C6: a request whose attempted strategies all completed without error and
\* without meeting the threshold ends with a result whose is_success is FALSE,
\* not with an exception; likewise CascadedFitter.run when both of its fits
\* returned an unsuccessful result.
C6_NoRaiseOnUnsuccessful ==
    /\ (/\ ApiRequest
        /\ dir = "fwd"
        /\ pc = "done"
        /\ attempts # << >>
        /\ \A i \in 1..Len(attempts) :
              /\ ~IsRegistrationError(attempts[i].exc)
              /\ Unmet(attempts[i]))
       => /\ raised = NoExc
          /\ ~response.is_success
    /\ (/\ entry = "run"
        /\ pc = "done"
        /\ fgr_result # NoFit
        /\ ~fgr_result.is_success)
       => /\ raised = NoExc
          /\ ~response.is_success

\* C7: with bidirectional search on and both calls returning, the selected
\* RMSE is the smaller of the two, the reverse result is selected exactly when
\* its RMSE is strictly smaller, and otherwise the forward transform, RMSE,
\* max error and method are kept; with bidirectional search off the reverse
\* call is never made.
C7_BestOfBoth ==
    ApiRequest =>
        /\ ~enable_bidirectional => dir = "fwd"
        /\ (pc \in {"result", "done"} /\ dir = "rev" /\ ret.exc = NoExc) =>
              /\ best.rmse = Min(fwd.rmse, ret.rmse)
              /\ best.direction = "Reverse" <=> ret.rmse < fwd.rmse
              /\ best.direction = "Reverse" =>
                    /\ best.max_error = ret.max_error
                    /\ best.method = ret.method
              /\ best.direction # "Reverse" =>
                    /\ best.direction = "Forward"
                    /\ best.transform = fwd.transformation
                    /\ best.rmse = fwd.rmse
                    /\ best.max_error = fwd.max_error
                    /\ best.method = fwd.method
        /\ (pc = "done" /\ raised = NoExc) =>
              /\ response.inlier_rmse = best.rmse
              /\ response.max_error = best.max_error
              /\ response.method = best.method
              /\ response.direction = best.direction

\* both calls returned the same RMSE with different transforms and the
\* response carries the forward result
C7_Witness ==
    /\ ApiRequest
    /\ pc = "done"
    /\ dir = "rev"
    /\ ret.exc = NoExc
    /\ ret.rmse = fwd.rmse
    /\ Inv(ret.transformation) # fwd.transformation
    /\ response.direction = "Forward"
    /\ response.transformation = fwd.transformation

\* the fit result of the fitter call just made
LastFit == IF icp_result # NoFit THEN icp_result ELSE fgr_result

\* C8: the returned transform maps source to target: when the reverse call
\* wins it is the inverse of the transform that call produced (their
\* composition is the identity), when the forward call wins it is the forward
\* transform; and a fitter result obtained from an ICP run with swapped clouds
\* carries the inverse of the transform that run found.
C8_SourceToTarget ==
    /\ (ApiRequest /\ pc \in {"result", "done"} /\ raised = NoExc) =>
          /\ best.direction = "Reverse" =>
                /\ best.transform = Inv(ret.transformation)
                /\ Compose(best.transform, ret.transformation) = Identity
          /\ best.direction = "Forward" => best.transform = fwd.transformation
          /\ pc = "done" => response.transformation = best.transform
    /\ (LastFit # NoFit /\ executions # << >>) =>
          LET last == executions[Len(executions)]
          IN  IF last.swapped
              THEN /\ LastFit.transformation = Inv(last.found)
                   /\ Compose(LastFit.transformation, last.found) = Identity
              ELSE LastFit.transformation = last.found

\* a fitter result obtained from a run with swapped clouds that found a
\* transform which is not its own inverse
C8_Witness ==
    /\ LastFit # NoFit
    /\ executions # << >>
    /\ executions[Len(executions)].swapped
    /\ executions[Len(executions)].found # Inv(executions[Len(executions)].found)
    /\ LastFit.transformation = Inv(executions[Len(executions)].found)

\* C9: in every FitResult is_success holds exactly when inlier_rmse is
\* strictly below rmse_threshold, and the is_success of the response is that
\* test applied to the RMSE of the response and the API threshold.
C9_SuccessFlag ==
    /\ \A r \in {fgr_result, icp_result, fit_result} :
          r # NoFit => (r.is_success <=> r.inlier_rmse < r.rmse_threshold)
    /\ (ApiRequest /\ pc = "done" /\ raised = NoExc) =>
          (response.is_success <=> response.inlier_rmse < rmse_threshold)

\* a response whose RMSE equals the threshold and is reported unsuccessful
C9_Witness ==
    /\ ApiRequest
    /\ pc = "done"
    /\ raised = NoExc
    /\ fit_result # NoFit
    /\ response.inlier_rmse = rmse_threshold
    /\ rmse_threshold > 0
    /\ ~response.is_success

\* C10: whenever stage 2 obtained a candidate from global registration, the
\* stage's result comes from an iterative refinement started from it: at
\* least one ICP execution was made and the result is what that execution
\* gave.
C10_Stage2Refined ==
    (ApiRequest /\ fgr_result # NoFit) =>
        /\ executions # << >>
        /\ fgr_result.transformation \in
              {executions[Len(executions)].found, Inv(executions[Len(executions)].found)}

\* ------------------------------------------------------- icp_refinement
\* icp_refinement was called directly with point sets and an initial
\* transform that pass its validation
RefineValid ==
    /\ entry = "icp_refinement"
    /\ ValidatePair(source_points, target_points) = NoExc
    /\ TransformationValidate(initial_transform) = NoExc

\* the direct call of icp_refinement returned a tuple
Returned == pc = "done" /\ raised = NoExc /\ refined_transform.type = "tuple"

\* the tuple was returned by an iteration within the budget whose convergence
\* test passed
ReturnedConverged ==
    /\ refined_transform.iterations = icp.iteration + 1
    /\ refined_transform.iterations <= max_iterations
    /\ icp.prev_error # Infinity
    /\ Abs(refined_transform.error - icp.prev_error) < Tolerance

\* C11 as stated: icp_refinement with max_iterations = N on valid inputs runs
\* at most N iterations and ends either by returning (Converged) or by raising
\* ConvergenceError (Exhausted), and nothing else; it returns no transform
\* when the budget ran out without the convergence test having passed.
C11_TwoOutcomes ==
    RefineValid =>
        /\ icp.iteration <= max_iterations
        /\ pc = "done" =>
              \/ Returned /\ ReturnedConverged
              \/ /\ raised = "ConvergenceError"
                 /\ icp.iteration = max_iterations
                 /\ refined_transform = NoTransform

\* C11 amended: icp_refinement with max_iterations = N on valid inputs runs at
\* most N iterations and ends in one of three ways: it returns (Converged), it
\* raises ConvergenceError (Exhausted), or it raises RegistrationError because
\* a numerical step raised; it returns no transform when the budget ran out
\* without the convergence test having passed.
C11_ThreeOutcomes ==
    RefineValid =>
        /\ icp.iteration <= max_iterations
        /\ pc = "done" =>
              \/ Returned /\ ReturnedConverged
              \/ /\ raised = "ConvergenceError"
                 /\ icp.iteration = max_iterations
                 /\ refined_transform = NoTransform
              \/ /\ raised = "RegistrationError"
                 /\ icp.iteration < max_iterations
                 /\ refined_transform = NoTransform

\* a budget of at least two iterations ran out on valid inputs
C11_Witness ==
    /\ RefineValid
    /\ pc = "done"
    /\ max_iterations >= 2
    /\ icp.iteration = max_iterations
    /\ raised = "ConvergenceError"

\* C12: every iteration of icp_refinement that returns does so with a mean
\* residual that differs from the previous iteration's by strictly less than
\* the tolerance, and returns the cumulative transform that residual was
\* measured with, the 1-based number of the iteration and the residual; an
\* iteration that goes on measured a residual that did not pass the test, so
\* the returning iteration is the first that passes.
C12_ConvergesAtFirst ==
    [][(pc = "icp_loop" /\ icp.iteration < max_iterations) =>
          /\ (pc' \in {"done", "metrics"} /\ raised' = NoExc) =>
                /\ refined_transform'.type = "tuple"
                /\ refined_transform'.T = icp.current_transform
                /\ refined_transform'.iterations = icp.iteration + 1
                /\ refined_transform'.error \in
                       MeanResiduals(Source, Target, icp.current_transform)
                /\ icp.prev_error # Infinity
                /\ Abs(refined_transform'.error - icp.prev_error) < Tolerance
          /\ pc' = "icp_loop" =>
                /\ icp'.iteration = icp.iteration + 1
                /\ icp'.prev_error \in
                       MeanResiduals(Source, Target, icp.current_transform)
                /\ \/ icp.prev_error = Infinity
                   \/ Abs(icp'.prev_error - icp.prev_error) >= Tolerance
      ]_vars

\* a direct call that returned at its third iteration, after an iteration
\* whose residual changed by the tolerance or more
C12_Witness ==
    /\ RefineValid
    /\ Returned
    /\ refined_transform.iterations = 3
    /\ refined_transform.T # initial_transform

\* icp_refinement was called on a point set against itself, from the identity
SelfRefinement ==
    /\ entry = "icp_refinement"
    /\ Placed(source_points)
    /\ target_points = source_points
    /\ initial_transform = Identity

C14_ReturnedValidated ==
    /\ (entry \in {"api", "run"} /\ pc = "done" /\ raised = NoExc) =>
          response.transformation \in validated
    /\ (entry = "icp_refinement" /\ Returned) =>
          refined_transform.T \in validated
    /\ entry = "fit" =>
          \A t \in Threads :
              (calls[t].pc = "done" /\ calls[t].exc = NoExc) =>
                  calls[t].result.transformation \in validated

\* C15: pca_registration hands back only a matrix that passed
\* TransformationValidator; when the matrix built from the SVD fails it, the
\* call ends with RegistrationError and returns nothing.
C15_PcaValidated ==
    /\ (entry = "pca_registration" /\ pc = "done") =>
          IF raised = NoExc
          THEN /\ TransformationValidate(initial_transform) = NoExc
               /\ initial_transform \in validated
          ELSE /\ raised = "RegistrationError"
               /\ initial_transform = BadTransform
    /\ (entry = "api" /\ pc = "icp") =>
          /\ TransformationValidate(initial_transform) = NoExc
          /\ initial_transform \in validated

\* pca_registration on a valid pair ended with RegistrationError: the matrix
\* it built failed the validator
C15_Witness ==
    /\ entry = "pca_registration"
    /\ pc = "done"
    /\ ValidatePair(source_points, target_points) = NoExc
    /\ raised = "RegistrationError"
    /\ initial_transform = BadTransform

\* what the claim C16 requires of a point set, and the first requirement a
\* point set fails
Acceptable(points) ==
    /\ points.type = "ndarray" /\ points.dtype = "float64"
    /\ points.ndim = 2
    /\ points.cols = 3
    /\ MinPoints <= PyLen(points) /\ PyLen(points) <= MaxPoints
    /\ IsFiniteAll(points)
    /\ ~AllCloseZero(points)

FirstFailing(points) ==
    IF points.type # "ndarray" THEN "type"
    ELSE IF points.ndim # 2 THEN "ndim"
    ELSE IF points.cols # 3 THEN "columns"
    ELSE IF PyLen(points) < MinPoints THEN "min_points"
    ELSE IF PyLen(points) > MaxPoints THEN "max_points"
    ELSE IF points.dtype # "float64" \/ ~IsFiniteAll(points) THEN "finite"
    ELSE IF AllCloseZero(points) THEN "all_zero"
    ELSE "none"

\* C16: PointCloudValidator.validate accepts a point set exactly when it is a
\* 2-D numeric array of 3 columns with min_points <= N <= max_points, all
\* values finite and not all zero; otherwise it raises a
\* PointCloudValidationError, that of the first failing check; 99 points
\* raise InsufficientPointsError with actual = 99 and required = 100.
C16_ValidateExact ==
    (entry = "validate" /\ validator = DefaultValidator /\ pc = "done") =>
        /\ raised = NoExc <=> Acceptable(source_points)
        /\ ~Acceptable(source_points) =>
              /\ IsValidationError(raised)
              /\ failed_check.check = FirstFailing(source_points)
        /\ FirstFailing(source_points) = "min_points" =>
              /\ raised = "InsufficientPointsError"
              /\ failed_check.actual = PyLen(source_points)
              /\ failed_check.required = MinPoints

\* what the claim C17 requires of a matrix, and the first requirement a
\* matrix fails
WithinMicro(dev) == dev <= 1

ProperRigid(m) ==
    /\ m.type = "ndarray"
    /\ m.shape = <<4, 4>>
    /\ m.finite
    /\ m.bottom = <<0, 0, 0, One>>
    /\ WithinMicro(m.gram_diag) /\ WithinMicro(m.gram_off)
    /\ WithinMicro(m.det)

FirstViolated(m) ==
    IF m.type # "ndarray" THEN "type"
    ELSE IF m.shape # <<4, 4>> THEN "shape"
    ELSE IF ~m.finite THEN "finite"
    ELSE IF m.bottom # <<0, 0, 0, One>> THEN "bottom_row"
    ELSE IF ~(WithinMicro(m.gram_diag) /\ WithinMicro(m.gram_off)) THEN "orthogonal"
    ELSE IF ~WithinMicro(m.det) THEN "determinant"
    ELSE "none"

\* C17: TransformationValidator.validate accepts a matrix exactly when it is a
\* finite 4x4 array with bottom row [0,0,0,1], rotation block orthogonal
\* within 1e-6 and determinant +1 within 1e-6; otherwise it raises
\* PointCloudValidationError from the first violated check in the order type,
\* shape, finiteness, bottom row, orthogonality, determinant.
C17_TransformExact ==
    (entry = "TransformationValidator.validate" /\ pc = "done") =>
        /\ raised = NoExc <=> ProperRigid(transform)
        /\ ~ProperRigid(transform) =>
              /\ raised = "PointCloudValidationError"
              /\ failed_check.check = FirstViolated(transform)

\* ------------------------------------------------------------- metrics
\* C18: compute_metrics(A, A, identity) returns RMSE, max, mean and median
\* error all 0.
C18_SelfMetricsZero ==
    (/\ entry = "compute_metrics"
     /\ pc = "done"
     /\ target_points = source_points
     /\ transform.T = Identity)
    => /\ raised = NoExc
       /\ metrics.RMSE = 0
       /\ metrics.MaxError = 0
       /\ metrics.MeanError = 0
       /\ metrics.MedianError = 0

\* compute_metrics returned for a set of more than one place against itself
\* under the identity
C18_Witness ==
    /\ entry = "compute_metrics"
    /\ pc = "done"
    /\ target_points = source_points
    /\ Cardinality(source_points.at) >= 2
    /\ transform.T = Identity
    /\ metrics.RMSE = 0
    /\ metrics.MedianError = 0

\* ---------------------------------------------------------- concurrency
\* C19: a fit call running concurrently with another on the same fitter ends
\* as it would when run alone: its ICP executions were given its own clouds
\* and initial guess, and it returns what those executions give.
C19_CallsIsolated ==
    entry = "fit" =>
        \A t \in Threads :
            calls[t].pc = "done" =>
                \E o1, o2 \in FitOutcomes :
                    LET alone == IcpFitterFit(
                                    calls[t].arguments.source_cloud,
                                    calls[t].arguments.target_cloud,
                                    calls[t].arguments.initial_guess_transformation,
                                    fitter_threshold, o1, o2)
                    IN  /\ calls[t].exc = alone.exc
                        /\ calls[t].result = alone.result
                        /\ calls[t].executions = alone.executions

\* the ICP executions made so far by the fitter calls of the request, and by
\* the concurrent fit calls
AllExecutions ==
    {executions[i] : i \in 1..Len(executions)} \cup
    (IF entry = "fit"
     THEN UNION {{calls[t].executions[i] : i \in 1..Len(calls[t].executions)} :
                    t \in Threads}
     ELSE {})

\* C20: in every ICP execution started by IcpFitter.fit the cloud given as
\* the ICP target (over which the index is built) has no more points than the
\* cloud given as the moving set, and a fit whose source is the larger cloud
\* makes a single execution, with the clouds exchanged.
C20_IndexOverSmaller ==
    /\ \A e \in AllExecutions : e.target_size <= e.source_size
    /\ (entry \in {"api", "run"} /\ executions # << >>
          /\ executions[1].swapped /\ Len(executions) = 1) =>
             executions[1].target_size >= executions[1].source_size

\* ------------------------------------------------------------ IcpFitter.fit
\* the ICP executions ex of a fit call given clouds src and tgt are in the
\* order the claim C21 describes
FitSequence(src, tgt, thr, ex) ==
    /\ Len(ex) <= 2
    /\ ex # << >> =>
          IF PyLen(src) > PyLen(tgt)
          THEN /\ Len(ex) = 1
               /\ ex[1].swapped
               /\ ex[1].source_size = PyLen(tgt)
               /\ ex[1].target_size = PyLen(src)
          ELSE /\ ~ex[1].swapped
               /\ ex[1].source_size = PyLen(src)
               /\ ex[1].target_size = PyLen(tgt)
               /\ Len(ex) = 2 =>
                     /\ ex[1].found # BadTransform
                     /\ ex[1].inlier_rmse >= thr
                     /\ ex[2].swapped
                     /\ ex[2].source_size = PyLen(tgt)
                     /\ ex[2].target_size = PyLen(src)
                     /\ ex[2].init = Inv(ex[1].init)

\* a fit call that made the executions ex ended with exception exc or
\* returned result
FitEnds(ex, exc, result) ==
    LET last == ex[Len(ex)]
    IN  /\ ex # << >>
        /\ exc \in {NoExc, "RegistrationError"}
        /\ exc # NoExc <=> last.found = BadTransform
        /\ exc = NoExc =>
              /\ result.transformation =
                     (IF last.swapped THEN Inv(last.found) ELSE last.found)
              /\ result.inlier_rmse = last.inlier_rmse
              /\ (~last.swapped => result.is_success)

\* the other calls on the fitter have not begun
Alone(t) == \A u \in Threads \ {t} : calls[u].pc = "source_cloud"

\* C21: IcpFitter.fit, for a source no larger than the target, runs forward
\* ICP first and returns its result without a reverse run when it is
\* successful; when it is not, it runs reverse ICP once (clouds exchanged,
\* inverse initial guess) and returns that result with its transform
\* inverted; for a larger source it runs one ICP with the clouds exchanged; no
\* call runs ICP more than twice, and an exception of the ICP collaborator
\* surfaces as RegistrationError.
C21_FitSequence ==
    /\ entry \in {"api", "run"} =>
          /\ FitSequence(IF entry = "run" THEN source_points ELSE Source,
                         IF entry = "run" THEN target_points ELSE Target,
                         fitter_threshold, executions)
          /\ executions # << >> =>
                FitEnds(executions,
                        IF LastFit = NoFit THEN "RegistrationError" ELSE NoExc,
                        LastFit)
          /\ (entry = "run" /\ pc = "done" /\ executions # << >>
                /\ executions[Len(executions)].found = BadTransform) =>
                raised = "RegistrationError"
    /\ entry = "fit" =>
          \A t \in Threads :
              Alone(t) =>
                  /\ FitSequence(calls[t].arguments.source_cloud,
                                 calls[t].arguments.target_cloud,
                                 fitter_threshold, calls[t].executions)
                  /\ calls[t].executions # << >> =>
                        calls[t].executions[1].init =
                            (IF calls[t].executions[1].swapped
                             THEN Inv(calls[t].arguments.initial_guess_transformation)
                             ELSE calls[t].arguments.initial_guess_transformation)
                  /\ calls[t].pc = "reverse_icp" =>
                        /\ Len(calls[t].executions) = 1
                        /\ calls[t].executions[1].found # BadTransform
                        /\ calls[t].executions[1].inlier_rmse >= fitter_threshold
                  /\ calls[t].pc = "done" =>
                        FitEnds(calls[t].executions, calls[t].exc, calls[t].result)

\* a fit whose forward run was unsuccessful and whose reverse run found a
\* transform that is not its own inverse
C21_Witness ==
    /\ entry = "run"
    /\ Len(executions) = 2
    /\ LastFit # NoFit
    /\ executions[2].found # Inv(executions[2].found)
    /\ LastFit.transformation = Inv(executions[2].found)

\* ------------------------------------------------------- CascadedFitter.run
\* C22: CascadedFitter.run reads both clouds and calls the ICP fitter first;
\* a successful ICP result is returned with method 'ICP' and the FGR fitter
\* is not called; otherwise the FGR fitter is called and a successful result
\* is returned with method 'FGR+ICP'; when both results are unsuccessful it
\* raises ConvergenceError; a failure to read the files leaves as
\* RegistrationError, as does an exception of a fitter.
C22_RunOrder ==
    [][entry = "run" =>
          /\ pc = "start" =>
                /\ pc' \in {"run_icp", "done"}
                /\ pc' = "done" => raised' = "RegistrationError"
                /\ icp_result' = NoFit /\ fgr_result' = NoFit
                /\ executions' = << >>
                /\ response' = NoResponse
          /\ pc = "run_icp" =>
                /\ fgr_result' = NoFit
                /\ executions' # << >>
                /\ IF icp_result' = NoFit
                   THEN /\ pc' = "done"
                        /\ raised' = "RegistrationError"
                        /\ response' = NoResponse
                   ELSE IF icp_result'.is_success
                   THEN /\ pc' = "done"
                        /\ raised' = NoExc
                        /\ response' = CreateResultDict(icp_result', "ICP")
                   ELSE /\ pc' = "run_fgr"
                        /\ raised' = NoExc
                        /\ response' = NoResponse
          /\ pc = "run_fgr" =>
                /\ pc' = "done"
                /\ IF fgr_result' = NoFit
                   THEN /\ raised' = "RegistrationError"
                        /\ response' = NoResponse
                   ELSE IF fgr_result'.is_success
                   THEN /\ raised' = NoExc
                        /\ response' = CreateResultDict(fgr_result', "FGR+ICP")
                   ELSE /\ raised' = "ConvergenceError"
                        /\ response' = NoResponse
      ]_vars

\* a run whose ICP fit and FGR fit both returned an unsuccessful result
C22_Witness ==
    /\ entry = "run"
    /\ pc = "done"
    /\ fgr_result # NoFit
    /\ ~fgr_result.is_success
    /\ raised = "ConvergenceError"
    /\ response = NoResponse

\* ------------------------------------------------------ align_cloud_sizes
\* the kind of the i-th point of a point set
RECURSIVE KindIn(_, _)
KindIn(runs, i) ==
    IF i <= Head(runs).c THEN Head(runs).k ELSE KindIn(Tail(runs), i - Head(runs).c)

KindAt(points, i) == KindIn(points.runs, i)

\* process_point_clouds has truncated the clouds of the request
Aligned == ApiRequest /\ source_aligned # NoCloud

\* a cascade stage is running or about to run
InStage == pc \in {"pca", "icp", "icp_loop", "metrics", "stage2", "stage3", "stage4"}

\* C24: align_cloud_sizes returns the first min(N, M) points of each cloud in
\* their order, so both outputs have min(N, M) points; clouds of equal length
\* come back unchanged and a second application changes nothing;
\* process_point_clouds applies it after validation and before any stage, so
\* every stage of either direction is given two sets of equal length.
C24_AlignedSets ==
    /\ Aligned =>
          LET n == Min(PyLen(source_points), PyLen(target_points))
          IN  /\ ValidatePair(source_points, target_points) = NoExc
              /\ PyLen(source_aligned) = n
              /\ PyLen(target_aligned) = n
              /\ \A i \in 1..n :
                    /\ KindAt(source_aligned, i) = KindAt(source_points, i)
                    /\ KindAt(target_aligned, i) = KindAt(target_points, i)
              /\ PyLen(source_points) = PyLen(target_points) =>
                    /\ source_aligned = source_points
                    /\ target_aligned = target_points
              /\ AlignCloudSizes(source_aligned, target_aligned) =
                    <<source_aligned, target_aligned>>
    /\ (ApiRequest /\ InStage) =>
          /\ Aligned
          /\ PyLen(Source) = PyLen(Target)
          /\ {Source, Target} = {source_aligned, target_aligned}

\* a stage of the reverse direction running on clouds that came in with
\* different lengths
C24_Witness ==
    /\ ApiRequest
    /\ InStage
    /\ dir = "rev"
    /\ PyLen(source_points) > PyLen(target_points)
    /\ PyLen(Source) = PyLen(target_points)
    /\ source_aligned # source_points

\* ------------------------------------------- exceptions of the two cascades
\* what process_point_clouds returns for the forward result alone
ForwardResponse ==
    [transformation |-> fwd.transformation,
     inlier_rmse |-> fwd.rmse,
     max_error |-> fwd.max_error,
     is_success |-> fwd.rmse < rmse_threshold,
     direction |-> "Forward",
     method |-> fwd.method]

\* C26: in process_point_clouds an exception of the reverse cascade is
\* swallowed and the forward result is returned as it is (the transform, RMSE,
\* max error and method a request without bidirectional search returns); an
\* exception of the forward cascade leaves process_point_clouds and the
\* reverse cascade is not attempted.
C26_ReverseSwallowed ==
    ApiRequest =>
        /\ (dir = "rev" /\ pc \in {"result", "done"} /\ ret.exc # NoExc) =>
              /\ raised = NoExc
              /\ best.direction = "Forward"
              /\ best.transform = fwd.transformation
              /\ best.rmse = fwd.rmse
              /\ best.max_error = fwd.max_error
              /\ best.method = fwd.method
              /\ pc = "done" => response = ForwardResponse
        /\ (dir = "fwd" /\ pc = "done" /\ ~enable_bidirectional /\ raised = NoExc) =>
              response = ForwardResponse
        /\ (dir = "fwd" /\ pc \in {"returned", "done"} /\ ret.exc # NoExc) =>
              (pc = "done" => raised = ret.exc)
        /\ dir = "rev" => (fwd # NoRet /\ fwd.exc = NoExc /\ raised = NoExc)
        /\ (pc = "done" /\ raised # NoExc) => dir = "fwd"

\* a request whose reverse cascade raised an exception that is not a
\* RegistrationError and that returned the forward result
C26_Witness ==
    /\ ApiRequest
    /\ dir = "rev"
    /\ pc = "done"
    /\ ret.exc = "TypeError"
    /\ raised = NoExc
    /\ response = ForwardResponse

\* ------------------------------------------ the first iteration of the loop
\* every return of icp_refinement reports two iterations or more, after one
\* alignment update or more
NeverAtFirst ==
    (entry = "icp_refinement" /\ Returned) =>
        /\ refined_transform.iterations >= 2
        /\ icp.iteration >= 1

\* C28 as stated: icp_refinement never converges on its first iteration, so
\* every return reports an iteration count of at least 2 after at least one
\* alignment update, and a call on valid inputs with max_iterations <= 1
\* always raises ConvergenceError, identical point sets and the identity
\* included.
C28_FirstNeverConverges ==
    /\ NeverAtFirst
    /\ (RefineValid /\ pc = "done" /\ max_iterations <= 1) =>
          raised = "ConvergenceError"

\* C28 amended: icp_refinement never converges on its first iteration, so
\* every return reports an iteration count of at least 2 after at least one
\* alignment update, and a call on valid inputs with max_iterations <= 1
\* never returns: it raises ConvergenceError, identical point sets and the
\* identity included, unless a numerical step of its one iteration raises,
\* which leaves as RegistrationError.
C28_FirstNeverReturns ==
    /\ NeverAtFirst
    /\ (RefineValid /\ pc = "done" /\ max_iterations <= 1) =>
          \/ raised = "ConvergenceError" /\ icp.iteration = max_iterations
          \/ /\ raised = "RegistrationError"
             /\ max_iterations = 1
             /\ icp.iteration = 0
             /\ TRUE \in KernelRaises(source_points, target_points)
    /\ (SelfRefinement /\ pc = "done" /\ max_iterations <= 1) =>
          raised = "ConvergenceError"

\* a point set refined against itself from the identity with a budget of one
\* iteration: the iteration measured a residual of 0 and the budget ran out
C28_Witness ==
    /\ SelfRefinement
    /\ max_iterations = 1
    /\ pc = "done"
    /\ icp.iteration = 1
    /\ icp.prev_error = 0
    /\ raised = "ConvergenceError"

\* ------------------------------------------------- the caller's input arrays
\* a step taken inside icp_refinement: any step of a direct call, and in the
\* cascade a pass of the loop that stays in the function or returns from it
RefinementStep ==
    \/ entry = "icp_refinement"
    \/ /\ entry = "api"
       /\ pc = "icp_loop"
       /\ pc' \in {"icp_loop", "metrics"}

\* C29: icp_refinement never modifies the arrays it was given: the source
\* points, the target points and the initial transform are the same after
\* every step of the function, whether it returns or raises, because the
\* updates are written into a private copy of the initial transform.
C29_InputsUntouched ==
    [][RefinementStep =>
          /\ UNCHANGED <<initial_transform, source_points, target_points,
                         source_aligned, target_aligned>>
          /\ pc' = "icp_loop" => icp'.array # "initial_transform"]_vars

\* a direct call that updated its transform at least once and returned one
\* that differs from the initial transform it was given
C29_Witness ==
    /\ entry = "icp_refinement"
    /\ Returned
    /\ icp.iteration >= 1
    /\ icp.array = "current_transform"
    /\ icp.current_transform # initial_transform
    /\ refined_transform.T = icp.current_transform

\* ------------------------------------------------ the validator's two flags
HasNaN(points) == \E i \in 1..Len(points.runs) : points.runs[i].k = "x"
HasInf(points) == \E i \in 1..Len(points.runs) : points.runs[i].k = "i"

\* C30: with check_nan enabled PointCloudValidator.validate rejects every
\* point set containing NaN whatever check_inf is, and with check_inf enabled
\* it rejects every point set containing an infinity whatever check_nan is.
C30_FlagsIndependent ==
    (entry = "validate" /\ pc = "done") =>
        /\ (validator.check_nan /\ HasNaN(source_points)) => raised # NoExc
        /\ (validator.check_inf /\ HasInf(source_points)) => raised # NoExc

\* ------------------------------------------- the endpoint's status codes
EndpointResponded == entry = "endpoint" /\ pc = "responded"

\* the body is JSON and has no source_points or no target_points
LacksField(data) ==
    /\ data.kind \in {"null", "number", "object"}
    /\ ~(RequiredFields \subseteq data.keys)

\* process_point_clouds was not called
NotProcessed ==
    /\ source_aligned = NoCloud
    /\ attempts = << >>
    /\ raised = NoExc
    /\ response = NoResponse

ResponseKeys == {"transformation", "inlier_rmse", "max_error", "is_success", "method"}

\* C23: the endpoint always answers with a status: a JSON body lacking
\* source_points or target_points gives 400 before any processing, a
\* PointCloudValidationError gives 400, a RegistrationError or another
\* CascadedFitError gives 500, any other exception gives 500, and only a
\* completed registration gives 200, with the five keys of the result.
C23_EndpointStatus ==
    /\ entry = "endpoint" => (status # NoStatus <=> pc = "responded")
    /\ EndpointResponded =>
          /\ LacksField(request) => (status = 400 /\ NotProcessed)
          /\ IsValidationError(raised) => status = 400
          /\ (raised # NoExc /\ ~IsValidationError(raised)) => status = 500
          /\ request.kind = "not_json" => status = 500
          /\ status = 200 <=>
                /\ request.keys = RequiredFields
                /\ raised = NoExc
                /\ response # NoResponse
          /\ status = 200 => ResponseKeys \subseteq DOMAIN response

\* ------------------------------------------------- the cumulative transform
\* a rigid motion applied to a point, and one motion after another
ApplyTo(m, x) == VecAdd(MatVec(m.R, x), m.t)
After(a, b) == [R |-> MatMul(a.R, b.R), t |-> VecAdd(MatVec(a.R, b.t), a.t)]

\* the k-th increment after ... after the first after m
RECURSIVE IncrementsAfter(_, _)
IncrementsAfter(incs, m) ==
    IF incs = << >> THEN [R |-> m.R, t |-> m.t]
    ELSE After(incs[Len(incs)], IncrementsAfter(SubSeq(incs, 1, Len(incs) - 1), m))

\* the points x goes through: the initial transform, then each increment
RECURSIVE Moved(_, _)
Moved(incs, x) == IF incs = << >> THEN x ELSE Moved(Tail(incs), ApplyTo(Head(incs), x))

TestPoints == {<<0, 0, 0>>, <<1, 0, 0>>, <<0, 1, 0>>, <<0, 0, 1>>}

\* C25: each pass composes the increment on the left of the cumulative
\* transform (new R = R_inc R_cum, new t = R_inc t_cum + t_inc), so after k
\* updates the cumulative transform is inc_k o ... o inc_1 o initial, it moves
\* every point as the initial transform followed by the increments in order
\* does, and its bottom row is the one it started with.
C25_LeftComposition ==
    entry = "cumulative_update" =>
        LET cur == cumulative.current_transform
            ini == cumulative.initial_transform
            incs == cumulative.increments
        IN  /\ [R |-> cur.R, t |-> cur.t] = IncrementsAfter(incs, ini)
            /\ \A x \in TestPoints : ApplyTo(cur, x) = Moved(incs, ApplyTo(ini, x))
            /\ cur.bottom = ini.bottom

\* two updates by rotations about different axes, with a translation, on an
\* initial transform that rotates and translates: the order matters here
C25_Witness ==
    /\ entry = "cumulative_update"
    /\ Len(cumulative.increments) = 2
    /\ cumulative.increments[1].R = RotX
    /\ cumulative.increments[2].R = RotZ
    /\ cumulative.increments[1].t # <<0, 0, 0>>
    /\ cumulative.initial_transform.R = RotZ
    /\ cumulative.initial_transform.t # <<0, 0, 0>>
    /\ MatMul(RotX, RotZ) # MatMul(RotZ, RotX)
    /\ cumulative.current_transform.R = MatMul(RotZ, MatMul(RotX, RotZ))

\* ------------------------------------------ the threshold test of stage 1
\* The case C27 is about, register_with_fallback returning from stage 1, does
\* not arise: compute_metrics raises on the tuple stage 1 hands it (see C1),
\* so no call returns the method "Custom ICP" and no attempt at stage 1 meets
\* the threshold.  The two tests the claim compares are rmse <= threshold
\* (app.py 125) and rmse < threshold (icp_fitter.py 22).
Stage1NeverReturns ==
    entry \in {"api", "endpoint"} =>
        /\ ret.method # "Custom ICP"
        /\ fwd.method # "Custom ICP"
        /\ best.method # "Custom ICP"
        /\ response.method # "Custom ICP"
        /\ \A i \in 1..Len(attempts) : attempts[i].stage = 1 => ~attempts[i].met

====
